---------------------------- MODULE Spec2Model ----------------------------
(***************************************************************************)
(* A model of the business-rule utilities of the Le Repertoire backend:    *)
(* the ID service, the employee / work-area validators, the rate limiter,  *)
(* the permission cache, the error mapping and the ACN check.              *)
(*                                                                         *)
(* Python strings are modelled as sequences of one-character strings, so   *)
(* that formatting, splitting, lower-casing and regular-expression         *)
(* matching are computed, not assumed.                                     *)
(***************************************************************************)
EXTENDS Integers, Sequences, FiniteSets, TLC

VARIABLES
    \* ---- services/auth/id_service.py ----
    sequences,      \* db['id_sequences']: sequence name -> stored value
    companies,      \* company_id values held by db['business_entities']
    idPc,           \* per caller: position inside an IDService call
    idLocal,        \* per caller: the locals of the call in progress
    idStarted,      \* number of IDService calls started so far
    returned,       \* every result an IDService call has produced
    dupReturned,    \* IDs that were returned by more than one call
    applied,        \* per sequence name: values in the order the updates were applied
    \* ---- models/business_entities/employees.py, venues.py ----
    empRec,         \* the field values handed to EmployeeBase / WorkArea
    empPc,          \* number of EmployeeBase fields validated so far (then "root", "done")
    empValues,      \* pydantic's `values`: the fields that have passed validation
    empErrors,      \* the fields (or "__root__") whose validation raised
    waResult,       \* outcome of WorkArea(work_area_name, work_area_id)
    linkValid,      \* outcome of IDService.validate_linking_id on the same IDs
    \* ---- utils/rate_limiter.py ----
    attempts,       \* self.attempts: key -> list of attempt times
    blocks,         \* self.blocks: key -> time the block ends (keys without a block are absent)
    lock,           \* self._lock: the thread holding it, or 0
    now,            \* datetime.utcnow(), in seconds
    rlPc,           \* per thread: position inside a RateLimiter call
    rlLocal,        \* per thread: the call (op, key), its temporaries and its result (for a clear: whether a block was removed)
    rlStarted,      \* number of RateLimiter calls started so far
    recorded,       \* per key: the times of the failed attempts appended since the key was last cleared
    recordedSeen,   \* per key, for each of those attempts: the utcnow() its _cleanup took the cutoff from
    triggered,      \* key -> time of the failed attempt that blocked a key that was not blocked
    \* ---- modules/permissionsManager_module.py ----
    cache,          \* self.cache: cache key -> (value, timestamp)
    business_users, \* db[business_users]: (user_id, business_id) -> role of the active document
    businesses,     \* db[businesses]: (user_id, business_id, venue_id[, work_area_id]) -> role of the active staff entry
    utcnow,         \* datetime.utcnow(), in seconds
    permLast,       \* the last PermissionManager call: arguments, what it found in the cache, outcome
    permCalls,      \* number of PermissionManager calls so far
    permTicks,      \* number of times the clock has advanced
    permHits,       \* number of check_permission calls answered from the cache
    permAssigned,   \* (user_id, business_id) -> the role of the last assign_role that returned True, until another writer changes it
    \* ---- utils/error_utils.py ----
    error_logs,     \* db.error_logs: the error contexts stored by log_error
    errLast,        \* the last handle_error call: the error, the response and the status returned
    errCalls,       \* number of handle_error calls so far
    \* ---- routes/onboarding/companyOnboarding_routes.py, routes/companyOnboarding_routes.py ----
    acnLast,        \* the last request or record: the ACN, what validate_acn said, the outcome
    acnCalls,       \* number of requests and records handled so far
    acnOnboarded,   \* number of onboarding requests that were accepted
    \* ---- utils/business_utils.py ----
    business_entities, \* db['business_entities']: the business documents (company_id, venues), in insertion order
    business_venues,   \* db['business_venues']: the venue documents (venue_id, company_id)
    bizPc,             \* per caller: where it is inside create_business / add_venue_to_business
    bizLocal,          \* per caller: its locals (company_id, venue_id, result['value'], modified_count > 0)
    bizStarted,        \* number of business_utils calls started so far
    bizReturned,       \* what the finished calls returned and which collections each of them changed
    \* ---- models/businessUsers_models.py (payments) ----
    payDoc,            \* the user document of the payroll_id: payments, salary_ytd, tax_withheld_ytd (in cents)
    payPc,             \* per caller: where it is inside record_payment
    payLocal,          \* per caller: the payment_data of its call
    payStarted,        \* number of record_payment calls started so far
    payTrue,           \* number of record_payment calls that returned True
    \* ---- utils/payroll/taxRates_utils.py ----
    taxLast,           \* the last calculate_annual_tax call: its arguments, whether a bracket matched, its result
    taxCalls           \* number of calculate_annual_tax calls so far

vars ==
    << sequences, companies, idPc, idLocal, idStarted, returned, dupReturned, applied,
       empRec, empPc, empValues, empErrors, waResult, linkValid,
       attempts, blocks, lock, now, rlPc, rlLocal, rlStarted, recorded, recordedSeen, triggered,
       cache, business_users, businesses, utcnow, permLast, permCalls, permTicks, permHits, permAssigned,
       error_logs, errLast, errCalls,
       acnLast, acnCalls, acnOnboarded,
       business_entities, business_venues, bizPc, bizLocal, bizStarted, bizReturned,
       payDoc, payPc, payLocal, payStarted, payTrue,
       taxLast, taxCalls >>

\* The state of a part of the program that a specification leaves out
Quiet(part) ==
    /\ IF part \in {"id", "biz"} THEN TRUE ELSE sequences = <<>>
    /\ IF part = "id" THEN TRUE ELSE
         /\ companies = {} /\ idPc = <<>> /\ idLocal = <<>>
         /\ idStarted = 0 /\ returned = {} /\ dupReturned = {} /\ applied = <<>>
    /\ IF part = "emp" THEN TRUE ELSE
         /\ empRec = <<>> /\ empPc = "done" /\ empValues = <<>> /\ empErrors = {}
         /\ waResult = "none" /\ linkValid = "none"
    /\ IF part = "rl" THEN TRUE ELSE
         /\ attempts = <<>> /\ blocks = <<>> /\ lock = 0 /\ now = 0 /\ rlPc = <<>>
         /\ rlLocal = <<>> /\ rlStarted = 0 /\ recorded = <<>>
         /\ recordedSeen = <<>> /\ triggered = <<>>
    /\ IF part = "perm" THEN TRUE ELSE
         /\ cache = <<>> /\ business_users = <<>> /\ businesses = <<>> /\ utcnow = 0
         /\ permLast = <<>> /\ permCalls = 0 /\ permTicks = 0 /\ permHits = 0 /\ permAssigned = <<>>
    /\ IF part = "err" THEN TRUE ELSE
         /\ error_logs = <<>> /\ errLast = <<>> /\ errCalls = 0
    /\ IF part = "acn" THEN TRUE ELSE
         /\ acnLast = <<>> /\ acnCalls = 0 /\ acnOnboarded = 0
    /\ IF part = "biz" THEN TRUE ELSE
         /\ business_entities = <<>> /\ business_venues = <<>> /\ bizPc = <<>>
         /\ bizLocal = <<>> /\ bizStarted = 0 /\ bizReturned = {}
    /\ IF part = "pay" THEN TRUE ELSE
         /\ payDoc = <<>> /\ payPc = <<>> /\ payLocal = <<>> /\ payStarted = 0 /\ payTrue = 0
    /\ IF part = "tax" THEN TRUE ELSE taxLast = <<>> /\ taxCalls = 0

Frame(part) ==
    /\ IF part \in {"id", "biz"} THEN TRUE ELSE UNCHANGED sequences
    /\ IF part = "id" THEN TRUE ELSE
         UNCHANGED <<companies, idPc, idLocal, idStarted, returned, dupReturned, applied>>
    /\ IF part = "emp" THEN TRUE ELSE
         UNCHANGED <<empRec, empPc, empValues, empErrors, waResult, linkValid>>
    /\ IF part = "rl" THEN TRUE ELSE
         UNCHANGED <<attempts, blocks, lock, now, rlPc, rlLocal, rlStarted, recorded,
                     recordedSeen, triggered>>
    /\ IF part = "perm" THEN TRUE ELSE
         UNCHANGED <<cache, business_users, businesses, utcnow, permLast, permCalls, permTicks, permHits,
                     permAssigned>>
    /\ IF part = "err" THEN TRUE ELSE UNCHANGED <<error_logs, errLast, errCalls>>
    /\ IF part = "acn" THEN TRUE ELSE UNCHANGED <<acnLast, acnCalls, acnOnboarded>>
    /\ IF part = "biz" THEN TRUE ELSE
         UNCHANGED <<business_entities, business_venues, bizPc, bizLocal, bizStarted, bizReturned>>
    /\ IF part = "pay" THEN TRUE ELSE
         UNCHANGED <<payDoc, payPc, payLocal, payStarted, payTrue>>
    /\ IF part = "tax" THEN TRUE ELSE UNCHANGED <<taxLast, taxCalls>>

-----------------------------------------------------------------------------
(* Bounds of the model *)

NumProcs == 2        \* concurrent callers (request threads)
MaxCalls == 3        \* IDService calls started in one behaviour
StartSeq == 999998   \* value of a long-used sequence document in an initial state

Procs == 1..NumProcs

-----------------------------------------------------------------------------
(* Strings *)

DigitChars == <<"0", "1", "2", "3", "4", "5", "6", "7", "8", "9">>
UpperAlpha == <<"A", "B", "C", "D", "E", "F", "G", "H", "I", "J", "K", "L", "M",
                "N", "O", "P", "Q", "R", "S", "T", "U", "V", "W", "X", "Y", "Z">>
LowerAlpha == <<"a", "b", "c", "d", "e", "f", "g", "h", "i", "j", "k", "l", "m",
                "n", "o", "p", "q", "r", "s", "t", "u", "v", "w", "x", "y", "z">>

Range(s) == {s[i] : i \in DOMAIN s}

\* str.isdigit() on one character / on a string (false for the empty string)
IsDigitChar(c) == c \in Range(DigitChars)
isdigit(s) == Len(s) > 0 /\ \A i \in DOMAIN s : IsDigitChar(s[i])

\* int() of one decimal digit
DigitVal(c) == (CHOOSE i \in DOMAIN DigitChars : DigitChars[i] = c) - 1

\* int() of a string of decimal digits
RECURSIVE int(_)
int(s) == IF Len(s) = 0 THEN 0
          ELSE 10 * int(SubSeq(s, 1, Len(s) - 1)) + DigitVal(s[Len(s)])

\* str() of a natural number
RECURSIVE str(_)
str(n) == IF n < 10 THEN <<DigitChars[n + 1]>>
          ELSE str(n \div 10) \o <<DigitChars[(n % 10) + 1]>>

\* format(n, "0<w>d"): zero-padded to at least w characters, never truncated
RECURSIVE ZeroPad(_, _)
ZeroPad(s, w) == IF Len(s) >= w THEN s ELSE ZeroPad(<<"0">> \o s, w)
fmt_d(n, w) == ZeroPad(str(n), w)

\* str.lower()
LowerChar(c) == IF \E i \in DOMAIN UpperAlpha : UpperAlpha[i] = c
                THEN LowerAlpha[CHOOSE i \in DOMAIN UpperAlpha : UpperAlpha[i] = c]
                ELSE c
lower(s) == [i \in DOMAIN s |-> LowerChar(s[i])]

\* str.split(sep) for a one-character separator: the list of parts
RECURSIVE split(_, _)
split(s, sep) ==
    IF \E i \in DOMAIN s : s[i] = sep
    THEN LET k == CHOOSE i \in DOMAIN s : s[i] = sep /\ \A j \in 1..(i - 1) : s[j] # sep
         IN  <<SubSeq(s, 1, k - 1)>> \o split(SubSeq(s, k + 1, Len(s)), sep)
    ELSE <<s>>

\* str.startswith(prefix)
startswith(s, prefix) == Len(s) >= Len(prefix) /\ SubSeq(s, 1, Len(prefix)) = prefix

\* The strings a '$'-anchored pattern may end at: the whole string, or the
\* string without one final newline (Python's '$' also matches before it).
DollarEnds(s) == {s} \cup (IF Len(s) > 0 /\ s[Len(s)] = "\n"
                           THEN {SubSeq(s, 1, Len(s) - 1)} ELSE {})

\* All characters of s at positions lo..hi are decimal digits (\d)
DigitsAt(s, lo, hi) == \A i \in lo..hi : IsDigitChar(s[i])


-----------------------------------------------------------------------------
(* services/auth/id_service.py: constants *)

\* The work-area names, in lower case
S ==
    [admin |-> <<"a", "d", "m", "i", "n">>,
     bar |-> <<"b", "a", "r">>,
     cleaners |-> <<"c", "l", "e", "a", "n", "e", "r", "s">>,
     functions |-> <<"f", "u", "n", "c", "t", "i", "o", "n", "s">>,
     guest_services |-> <<"g", "u", "e", "s", "t", " ", "s", "e", "r", "v", "i", "c", "e", "s">>,
     house_keeping |-> <<"h", "o", "u", "s", "e", " ", "k", "e", "e", "p", "i", "n", "g">>,
     kitchen |-> <<"k", "i", "t", "c", "h", "e", "n">>,
     maintenance |-> <<"m", "a", "i", "n", "t", "e", "n", "a", "n", "c", "e">>,
     operations |-> <<"o", "p", "e", "r", "a", "t", "i", "o", "n", "s">>,
     restaurant |-> <<"r", "e", "s", "t", "a", "u", "r", "a", "n", "t">>,
     store_room |-> <<"s", "t", "o", "r", "e", " ", "r", "o", "o", "m">>,
     venue |-> <<"v", "e", "n", "u", "e">>]

\* IDService.WORK_AREA_CODES: the (name, code) items of the dict
WORK_AREA_CODES ==
    { <<S.admin, "A">>, <<S.bar, "B">>, <<S.cleaners, "C">>, <<S.functions, "F">>,
      <<S.guest_services, "G">>, <<S.house_keeping, "H">>, <<S.kitchen, "K">>,
      <<S.maintenance, "M">>, <<S.operations, "O">>, <<S.restaurant, "R">>,
      <<S.store_room, "S">>, <<S.venue, "V">> }

\* name in WORK_AREA_CODES / WORK_AREA_CODES[name]
HasAreaCode(name) == \E it \in WORK_AREA_CODES : it[1] = name
AreaCodeOf(name) == (CHOOSE it \in WORK_AREA_CODES : it[1] = name)[2]

\* IDService.AREA_NAMES = {code: name for name, code in WORK_AREA_CODES.items()}
AREA_NAMES == { <<it[2], it[1]>> : it \in WORK_AREA_CODES }

\* random.randint(10, 99) and the "+11" step of venue and work-area sequences
RandLo == 10
RandHi == 99
SeqStep == 11
\* the first value of an employee or payroll sequence document ($setOnInsert)
SeqBase == 100000
\* random.randint(1000, 9999) of generate_company_id
CompanyLo == 1000
CompanyHi == 9999

\* Literal pieces of the f-strings
\* The literal heads of the f-strings: ID prefixes and sequence names
Prefix ==
    [CNY |-> <<"C", "N", "Y", "-">>,
     VEN |-> <<"V", "E", "N", "-">>,
     WAI |-> <<"W", "A", "I", "-">>,
     EMP |-> <<"E", "M", "P", "-">>]
SeqName ==
    [venue |-> <<"v", "e", "n", "u", "e", "_">>,
     work_area |-> <<"w", "o", "r", "k", "_", "a", "r", "e", "a", "_">>,
     employee |-> <<"e", "m", "p", "l", "o", "y", "e", "e", "_">>,
     payroll |-> <<"p", "a", "y", "r", "o", "l", "l", "_", "i", "d">>]
Dash == <<"-">>
Underscore == <<"_">>

-----------------------------------------------------------------------------
(* services/auth/id_service.py: pure helpers *)

\* _extract_id_component: parts[1] of id_str.split("-"), or InvalidIDError
ExtractOk(id_str) ==
    LET parts == split(id_str, "-") IN Len(parts) >= 2 /\ isdigit(parts[2])
_extract_id_component(id_str) == split(id_str, "-")[2]

\* x.split("-")[-1]
LastPart(id_str) == LET parts == split(id_str, "-") IN parts[Len(parts)]

\* wrapped = (current - 10) % 90 + 10
Wrap(current) == ((current - 10) % 90) + 10

\* A find_one_and_update that loses the $inc on an existing document
FindOneAndUpdate_LostInc(seqs, name, onInsert, inc) ==
    IF name \in DOMAIN seqs
    THEN seqs
    ELSE [n \in DOMAIN seqs \cup {name} |-> IF n = name THEN onInsert + inc ELSE seqs[n]]

\* find_one_and_update({_id: name}, {$setOnInsert: {value: onInsert}, $inc: {value: inc}},
\*                     upsert=True, return_document=AFTER): the collection afterwards.
\* The document is created with onInsert when absent, and incremented in the
\* same atomic update.
FindOneAndUpdate(seqs, name, onInsert, inc) ==
    IF name \in DOMAIN seqs
    THEN [seqs EXCEPT ![name] = @ + inc]
    ELSE [n \in DOMAIN seqs \cup {name} |-> IF n = name THEN onInsert + inc ELSE seqs[n]]

\* update_one({_id: name}, {$set: {value: v}})
UpdateOneSet(seqs, name, v) ==
    IF name \in DOMAIN seqs THEN [seqs EXCEPT ![name] = v] ELSE seqs

\* re.match(r'^D[A-Z]-\d{6}$', payroll_id)
MatchPayrollId(s) ==
    \E e \in DollarEnds(s) :
        /\ Len(e) = 9
        /\ e[1] = "D" /\ e[2] \in Range(UpperAlpha) /\ e[3] = "-"
        /\ DigitsAt(e, 4, 9)

\* re.match(r'^EMP-\d{4}-\d{4}-\d{6}$', linking_id)
MatchLinkingId(s) ==
    \E e \in DollarEnds(s) :
        /\ Len(e) = 20
        /\ SubSeq(e, 1, 4) = Prefix.EMP /\ DigitsAt(e, 5, 8)
        /\ e[9] = "-" /\ DigitsAt(e, 10, 13)
        /\ e[14] = "-" /\ DigitsAt(e, 15, 20)

\* extract_area_code_from_payroll_id: the code, or None (modelled as "")
extract_area_code_from_payroll_id(payroll_id) ==
    IF ~MatchPayrollId(payroll_id) THEN "" ELSE payroll_id[2]

\* is_valid_area_code
is_valid_area_code(area_code) == \E it \in AREA_NAMES : it[1] = area_code

\* get_work_area_from_payroll_id: the name, or None (modelled as <<>>)
get_work_area_from_payroll_id(payroll_id) ==
    LET area_code == extract_area_code_from_payroll_id(payroll_id) IN
    IF area_code = "" THEN <<>>
    ELSE IF is_valid_area_code(area_code)
         THEN (CHOOSE it \in AREA_NAMES : it[1] = area_code)[2]
         ELSE <<>>

\* IDService.validate_payroll_id
validate_payroll_id(payroll_id, work_area_name) ==
    IF ~MatchPayrollId(payroll_id) THEN FALSE
    ELSE IF ~is_valid_area_code(payroll_id[2]) THEN FALSE
    ELSE IF ~HasAreaCode(lower(work_area_name)) THEN FALSE
    ELSE IF payroll_id[2] # AreaCodeOf(lower(work_area_name)) THEN FALSE
    ELSE TRUE

\* IDService.validate_linking_id
validate_linking_id(linking_id, company_id, work_area_id) ==
    IF ~MatchLinkingId(linking_id) THEN FALSE
    ELSE IF ~ExtractOk(company_id) THEN FALSE
    ELSE LET company_num   == _extract_id_component(company_id)
             work_area_num == LastPart(work_area_id)
             linking_parts == split(linking_id, "-")
         IN  /\ Len(linking_parts) = 4
             /\ linking_parts[1] = <<"E", "M", "P">>
             /\ linking_parts[2] = company_num
             /\ linking_parts[3] = work_area_num
             /\ isdigit(linking_parts[4])
             /\ int(linking_parts[4]) >= SeqBase

-----------------------------------------------------------------------------
(* services/auth/id_service.py: the calls, as steps of concurrent callers.  *)
(* Each database operation is one atomic step; a PyMongoError is possible   *)
(* at every database operation (dbok = FALSE).                              *)

CompanyIdInputs == { <<"C", "N", "Y", "-", "1", "2", "3", "4">>,
                     <<"C", "N", "Y", "1", "2", "3", "4">> }
VenueIdInputs == { <<"V", "E", "N", "-", "1", "2", "3", "4", "-", "1", "0">> }
WorkAreaIdInputs == { <<"W", "A", "I", "-", "1", "2", "3", "4", "-", "1", "0", "2", "1">> }
WorkAreaNameInputs == { S.bar, <<"K", "i", "t", "c", "h", "e", "n">>, <<"p", "o", "o", "l">> }
\* the draws of random.randint considered
RandSeeds == { RandLo, 89, RandHi }
CompanyNumbers == { CompanyLo, 1234, CompanyHi }

NoLocal == [op |-> "", a1 |-> <<>>, a2 |-> <<>>, name |-> <<>>, current |-> 0]

\* The sequence documents of a database that has been in use for a long time
UsedSequences ==
    LET emp == SeqName.employee \o <<"1", "2", "3", "4">> \o Underscore \o <<"1", "0", "2", "1">>
    IN  [n \in {emp, SeqName.payroll} |-> StartSeq]

IdInit ==
    /\ Quiet("id")
    /\ sequences \in { <<>>, UsedSequences }
    /\ companies = { <<"C", "N", "Y", "-", "1", "2", "3", "4">> }
    /\ idPc = [p \in Procs |-> "idle"]
    /\ idLocal = [p \in Procs |-> NoLocal]
    /\ idStarted = 0
    /\ returned = {}
    /\ dupReturned = {}
    /\ applied = [n \in DOMAIN sequences |-> <<>>]

\* A call ends: its result (an ID, or the exception it raised) is recorded
Return(p, op, a1, a2, ok, val, exc) ==
    /\ returned' = returned \cup
           {[op |-> op, a1 |-> a1, a2 |-> a2, ok |-> ok, val |-> val, exc |-> exc]}
    /\ dupReturned' = IF ok /\ \E r \in returned : r.ok /\ r.op = op /\ r.val = val
                      THEN dupReturned \cup {[op |-> op, val |-> val]}
                      ELSE dupReturned
    /\ idPc' = [idPc EXCEPT ![p] = "idle"]
    /\ idLocal' = [idLocal EXCEPT ![p] = NoLocal]

\* A call starts
Start(p) ==
    /\ idPc[p] = "idle"
    /\ idStarted < MaxCalls
    /\ idStarted' = idStarted + 1

\* The find_one_and_update of a generate_* call is applied
ApplyUpdate(p, op, a1, a2, name, onInsert, inc, next) ==
    /\ sequences' = FindOneAndUpdate(sequences, name, onInsert, inc)
    /\ applied' = [n \in DOMAIN sequences' |->
                     IF n = name
                     THEN Append(IF n \in DOMAIN applied THEN applied[n] ELSE <<>>,
                                 sequences'[n])
                     ELSE applied[n]]
    /\ idLocal' = [idLocal EXCEPT ![p] =
                     [op |-> op, a1 |-> a1, a2 |-> a2, name |-> name,
                      current |-> sequences'[name]]]
    /\ idPc' = [idPc EXCEPT ![p] = next]
    /\ UNCHANGED <<companies, returned, dupReturned>>

\* generate_company_id: one iteration of the while-loop
generate_company_id(p) ==
    /\ Frame("id")
    /\ \/ Start(p)
       \/ idPc[p] = "company_loop" /\ UNCHANGED idStarted
    /\ \E company_number \in CompanyNumbers :
         LET company_id == Prefix.CNY \o str(company_number) IN
         \/ /\ company_id \in companies
            /\ idPc' = [idPc EXCEPT ![p] = "company_loop"]
            /\ UNCHANGED <<idLocal, returned, dupReturned>>
         \/ /\ company_id \notin companies
            /\ Return(p, "company", <<>>, <<>>, TRUE, company_id, "")
    /\ UNCHANGED <<sequences, companies, applied>>

\* generate_venue_id, up to and including find_one_and_update
generate_venue_id_update(p) ==
    /\ Frame("id")
    /\ Start(p)
    /\ \E company_id \in CompanyIdInputs, rnd \in RandSeeds, dbok \in BOOLEAN :
         \/ /\ ~ExtractOk(company_id)
            /\ Return(p, "venue", company_id, <<>>, FALSE, <<>>, "InvalidIDError")
            /\ UNCHANGED <<sequences, companies, applied>>
         \/ /\ ExtractOk(company_id) /\ ~dbok
            /\ Return(p, "venue", company_id, <<>>, FALSE, <<>>, "IDGenerationError")
            /\ UNCHANGED <<sequences, companies, applied>>
         \/ /\ ExtractOk(company_id) /\ dbok
            /\ ApplyUpdate(p, "venue", company_id, <<>>,
                           SeqName.venue \o _extract_id_component(company_id),
                           rnd, SeqStep, "venue_wrap")

\* generate_venue_id, from "current = result['value']" to the return
generate_venue_id_wrap(p) ==
    /\ Frame("id")
    /\ idPc[p] = "venue_wrap"
    /\ LET l == idLocal[p]
           wrapped == Wrap(l.current)
           venue_id == Prefix.VEN \o _extract_id_component(l.a1) \o Dash \o fmt_d(wrapped, 2)
       IN  \/ /\ wrapped = l.current
              /\ Return(p, "venue", l.a1, <<>>, TRUE, venue_id, "")
              /\ UNCHANGED sequences
           \/ /\ wrapped # l.current
              /\ sequences' = UpdateOneSet(sequences, l.name, wrapped)
              /\ Return(p, "venue", l.a1, <<>>, TRUE, venue_id, "")
           \/ /\ wrapped # l.current
              /\ Return(p, "venue", l.a1, <<>>, FALSE, <<>>, "IDGenerationError")
              /\ UNCHANGED sequences
    /\ UNCHANGED <<companies, idStarted, applied>>

\* generate_work_area_id, up to and including find_one_and_update
generate_work_area_id_update(p) ==
    /\ Frame("id")
    /\ Start(p)
    /\ \E company_id \in CompanyIdInputs, venue_id \in VenueIdInputs,
          rnd \in RandSeeds, dbok \in BOOLEAN :
         \/ /\ ~ExtractOk(company_id)
            /\ Return(p, "work_area", company_id, venue_id, FALSE, <<>>, "InvalidIDError")
            /\ UNCHANGED <<sequences, companies, applied>>
         \/ /\ ExtractOk(company_id) /\ ~dbok
            /\ Return(p, "work_area", company_id, venue_id, FALSE, <<>>, "IDGenerationError")
            /\ UNCHANGED <<sequences, companies, applied>>
         \/ /\ ExtractOk(company_id) /\ dbok
            /\ ApplyUpdate(p, "work_area", company_id, venue_id,
                           SeqName.work_area \o _extract_id_component(company_id)
                               \o Underscore \o LastPart(venue_id),
                           rnd, SeqStep, "work_area_wrap")

\* generate_work_area_id, from "current = result['value']" to the return
generate_work_area_id_wrap(p) ==
    /\ Frame("id")
    /\ idPc[p] = "work_area_wrap"
    /\ LET l == idLocal[p]
           wrapped == Wrap(l.current)
           work_area_id == Prefix.WAI \o _extract_id_component(l.a1) \o Dash
                               \o LastPart(l.a2) \o fmt_d(wrapped, 2)
       IN  \/ /\ wrapped = l.current
              /\ Return(p, "work_area", l.a1, l.a2, TRUE, work_area_id, "")
              /\ UNCHANGED sequences
           \/ /\ wrapped # l.current
              /\ sequences' = UpdateOneSet(sequences, l.name, wrapped)
              /\ Return(p, "work_area", l.a1, l.a2, TRUE, work_area_id, "")
           \/ /\ wrapped # l.current
              /\ Return(p, "work_area", l.a1, l.a2, FALSE, <<>>, "IDGenerationError")
              /\ UNCHANGED sequences
    /\ UNCHANGED <<companies, idStarted, applied>>

\* generate_linking_id, up to and including find_one_and_update
generate_linking_id_update(p) ==
    /\ Frame("id")
    /\ Start(p)
    /\ \E company_id \in CompanyIdInputs, work_area_id \in WorkAreaIdInputs,
          dbok \in BOOLEAN :
         \/ /\ ~ExtractOk(company_id)
            /\ Return(p, "linking", company_id, work_area_id, FALSE, <<>>, "InvalidIDError")
            /\ UNCHANGED <<sequences, companies, applied>>
         \/ /\ ExtractOk(company_id) /\ ~dbok
            /\ Return(p, "linking", company_id, work_area_id, FALSE, <<>>, "IDGenerationError")
            /\ UNCHANGED <<sequences, companies, applied>>
         \/ /\ ExtractOk(company_id) /\ dbok
            /\ ApplyUpdate(p, "linking", company_id, work_area_id,
                           SeqName.employee \o _extract_id_component(company_id)
                               \o Underscore \o LastPart(work_area_id),
                           SeqBase, 1, "linking_return")

\* generate_linking_id: "employee_number = result['value']" and the return
generate_linking_id_return(p) ==
    /\ Frame("id")
    /\ idPc[p] = "linking_return"
    /\ LET l == idLocal[p] IN
       Return(p, "linking", l.a1, l.a2, TRUE,
              Prefix.EMP \o _extract_id_component(l.a1) \o Dash \o LastPart(l.a2)
                  \o Dash \o str(l.current), "")
    /\ UNCHANGED <<sequences, companies, idStarted, applied>>

\* generate_payroll_id, up to and including find_one_and_update
generate_payroll_id_update(p) ==
    /\ Frame("id")
    /\ Start(p)
    /\ \E work_area_name \in WorkAreaNameInputs, dbok \in BOOLEAN :
         \/ /\ ~HasAreaCode(lower(work_area_name))
            /\ Return(p, "payroll", work_area_name, <<>>, FALSE, <<>>, "ValueError")
            /\ UNCHANGED <<sequences, companies, applied>>
         \/ /\ HasAreaCode(lower(work_area_name)) /\ ~dbok
            /\ Return(p, "payroll", work_area_name, <<>>, FALSE, <<>>, "IDGenerationError")
            /\ UNCHANGED <<sequences, companies, applied>>
         \/ /\ HasAreaCode(lower(work_area_name)) /\ dbok
            /\ ApplyUpdate(p, "payroll", work_area_name, <<>>, SeqName.payroll,
                           SeqBase, 1, "payroll_return")

\* generate_payroll_id: "sequence = result['value']" and the return
generate_payroll_id_return(p) ==
    /\ Frame("id")
    /\ idPc[p] = "payroll_return"
    /\ LET l == idLocal[p] IN
       Return(p, "payroll", l.a1, <<>>, TRUE,
              <<"D", AreaCodeOf(lower(l.a1))>> \o Dash \o fmt_d(l.current, 6), "")
    /\ UNCHANGED <<sequences, companies, idStarted, applied>>

IdNext ==
    \E p \in Procs :
        \/ generate_company_id(p)
        \/ generate_venue_id_update(p)
        \/ generate_venue_id_wrap(p)
        \/ generate_work_area_id_update(p)
        \/ generate_work_area_id_wrap(p)
        \/ generate_linking_id_update(p)
        \/ generate_linking_id_return(p)
        \/ generate_payroll_id_update(p)
        \/ generate_payroll_id_return(p)

SpecIds == IdInit /\ [][IdNext]_vars

-----------------------------------------------------------------------------
(* ID formats *)

\* re.match(r'^CNY-\d{4}$', v)
MatchCompanyId(s) ==
    \E e \in DollarEnds(s) :
        Len(e) = 8 /\ SubSeq(e, 1, 4) = Prefix.CNY /\ DigitsAt(e, 5, 8)

\* re.match(r'^VEN-\d{4}-\d{2}$', v)
MatchVenueId(s) ==
    \E e \in DollarEnds(s) :
        /\ Len(e) = 11
        /\ SubSeq(e, 1, 4) = Prefix.VEN /\ DigitsAt(e, 5, 8)
        /\ e[9] = "-" /\ DigitsAt(e, 10, 11)

\* pattern r'^WAI-\d{4}-\d{4}$'
MatchWorkAreaId(s) ==
    \E e \in DollarEnds(s) :
        /\ Len(e) = 13
        /\ SubSeq(e, 1, 4) = Prefix.WAI /\ DigitsAt(e, 5, 8)
        /\ e[9] = "-" /\ DigitsAt(e, 10, 13)

\* The format each generate_* call documents for its result
WellFormed(op, id) ==
    CASE op = "company"   -> MatchCompanyId(id)
      [] op = "venue"     -> MatchVenueId(id)
      [] op = "work_area" -> MatchWorkAreaId(id)
      [] op = "linking"   -> MatchLinkingId(id)
      [] op = "payroll"   -> MatchPayrollId(id)

-----------------------------------------------------------------------------
(* Claims about the ID service *)

\* C1: every ID a generate_* call returns conforms to the regex format of its
\* kind (CNY-dddd, VEN-dddd-dd, WAI-dddd-dddd, EMP-dddd-dddd-dddddd,
\* D<letter>-dddddd), after any number of prior calls.
C1_EveryReturnedIdWellFormed ==
    \A r \in returned : r.ok => WellFormed(r.op, r.val)

\* C6: no two generate_linking_id calls and no two generate_payroll_id calls
\* return the same ID, and the values each sequence hands out are strictly
\* increasing in the order its updates are applied.
C6_UniqueAndIncreasing ==
    /\ \A d \in dupReturned : d.op \notin {"linking", "payroll"}
    /\ \A n \in DOMAIN applied :
         (startswith(n, SeqName.employee) \/ n = SeqName.payroll) =>
             \A i \in 1..(Len(applied[n]) - 1) : applied[n][i] < applied[n][i + 1]

\* Two callers have both had their linking update applied on the same
\* sequence and neither has returned yet, after an earlier payroll ID.
C6_Witness ==
    /\ \E p, q \in Procs :
         /\ p # q
         /\ idPc[p] = "linking_return" /\ idPc[q] = "linking_return"
         /\ idLocal[p].name = idLocal[q].name
         /\ idLocal[p].current # idLocal[q].current
    /\ \E r \in returned : r.op = "payroll" /\ r.ok

\* C7: the ID returned by generate_payroll_id(a) for a recognized name a passes
\* validate_payroll_id(p, a) and maps back to lower-case a, and an unrecognized
\* name gets ValueError.
C7_PayrollIdEncodesArea ==
    \A r \in returned :
        r.op = "payroll" =>
            IF HasAreaCode(lower(r.a1))
            THEN r.ok => /\ validate_payroll_id(r.val, r.a1)
                         /\ get_work_area_from_payroll_id(r.val) = lower(r.a1)
            ELSE ~r.ok /\ r.exc = "ValueError"

\* C17: no two generate_venue_id calls for one company and no two
\* generate_work_area_id calls for one venue return the same ID, whether the
\* calls follow each other or interleave, and when no call is in progress
\* and none has failed the stored sequence value is wrapped into 10..99.
C17_VenueIdsUnique ==
    /\ \A d \in dupReturned : d.op \notin {"venue", "work_area"}
    /\ (/\ \A p \in Procs : idPc[p] = "idle"
        /\ \A r \in returned : r.ok)
       => \A n \in DOMAIN sequences :
             (startswith(n, SeqName.venue) \/ startswith(n, SeqName.work_area))
                 => sequences[n] \in RandLo..RandHi

-----------------------------------------------------------------------------
(* models/business_entities/employees.py (EmployeeBase) and venues.py       *)
(* (WorkArea).  pydantic validates the fields in the order the class        *)
(* declares them; a validator's `values` holds only the fields that were    *)
(* validated before it and passed.  The root validator runs after the       *)
(* fields.  Fields no claim reads are left out (they are taken as valid).   *)

\* EmployeeBase.validate_payroll_id: the local dict area_codes
area_codes ==
    { <<S.admin, "A">>, <<S.bar, "B">>, <<S.cleaners, "C">>, <<S.functions, "F">>,
      <<S.guest_services, "G">>, <<S.house_keeping, "H">>, <<S.kitchen, "K">>,
      <<S.maintenance, "M">>, <<S.operations, "O">>, <<S.restaurant, "R">>,
      <<S.store_room, "S">>, <<S.venue, "V">> }

\* A valid_areas list that drifted from the payroll area codes
valid_areas_Extra ==
    { S.admin, S.bar, S.cleaners, S.functions, S.guest_services,
      S.house_keeping, S.kitchen, S.maintenance, S.operations,
      S.restaurant, S.store_room, S.venue, <<"p", "o", "o", "l">> }

\* WorkArea.validate_work_area_name: the local list valid_areas
valid_areas ==
    { S.admin, S.bar, S.cleaners, S.functions, S.guest_services,
      S.house_keeping, S.kitchen, S.maintenance, S.operations,
      S.restaurant, S.store_room, S.venue }

\* The declaration order of the EmployeeBase fields modelled
FieldOrder == <<"linking_id", "payroll_id", "company_id", "work_area_id", "work_area_name">>

\* values.get(f, '')
Get(values, f) == IF f \in DOMAIN values THEN values[f] ELSE <<>>

\* The Field(...) constraint of each field
FieldConstraint(f, v) ==
    CASE f = "linking_id"     -> MatchLinkingId(v)
      [] f = "payroll_id"     -> MatchPayrollId(v)
      [] f = "company_id"     -> MatchCompanyId(v)
      [] f = "work_area_id"   -> MatchWorkAreaId(v)
      [] f = "work_area_name" -> Len(v) >= 2 /\ Len(v) <= 50

\* EmployeeBase.validate_payroll_id(cls, v, values): TRUE when it returns v,
\* FALSE when it raises ValueError
EmployeeBase_validate_payroll_id(v, values) ==
    LET work_area == lower(Get(values, "work_area_name")) IN
    IF \E it \in area_codes : it[1] = work_area
    THEN LET expected_code == (CHOOSE it \in area_codes : it[1] = work_area)[2]
         IN  startswith(v, <<"D", expected_code, "-">>)
    ELSE TRUE

\* A root validator that forgets the work-area component
validate_linking_id_components_NoWorkArea(values) ==
    LET linking_id   == Get(values, "linking_id")
        company_id   == Get(values, "company_id")
        work_area_id == Get(values, "work_area_id")
    IN  IF linking_id # <<>> /\ company_id # <<>> /\ work_area_id # <<>>
        THEN LET linking_parts == split(linking_id, "-")
                 company_num   == IF "-" \in Range(company_id)
                                  THEN split(company_id, "-")[2] ELSE <<>>
             IN  IF Len(linking_parts) # 4 THEN FALSE
                 ELSE IF linking_parts[2] # company_num THEN FALSE
                 ELSE TRUE
        ELSE TRUE

\* EmployeeBase.validate_linking_id_components(cls, values): TRUE when it
\* returns values, FALSE when it raises ValueError
validate_linking_id_components(values) ==
    LET linking_id   == Get(values, "linking_id")
        company_id   == Get(values, "company_id")
        work_area_id == Get(values, "work_area_id")
    IN  IF linking_id # <<>> /\ company_id # <<>> /\ work_area_id # <<>>
        THEN LET linking_parts == split(linking_id, "-")
                 company_num   == IF "-" \in Range(company_id)
                                  THEN split(company_id, "-")[2] ELSE <<>>
                 work_area_num == IF "-" \in Range(work_area_id)
                                  THEN LastPart(work_area_id) ELSE <<>>
             IN  IF Len(linking_parts) # 4 THEN FALSE
                 ELSE IF linking_parts[2] # company_num THEN FALSE
                 ELSE IF linking_parts[3] # work_area_num THEN FALSE
                 ELSE TRUE
        ELSE TRUE

\* WorkArea.validate_work_area_name(cls, v): TRUE when it returns v
validate_work_area_name(v) == lower(v) \in valid_areas

LinkingIdInputs ==
    { <<"E", "M", "P", "-", "1", "2", "3", "4", "-", "1", "0", "2", "1", "-", "1", "0", "0", "0", "0", "1">>,
      <<"E", "M", "P", "-", "1", "2", "3", "4", "-", "9", "9", "9", "9", "-", "1", "0", "0", "0", "0", "1">>,
      <<"E", "M", "P", "-", "5", "6", "7", "8", "-", "1", "0", "2", "1", "-", "1", "0", "0", "0", "0", "1">>,
      <<"E", "M", "P", "-", "1", "2", "3", "4", "-", "1", "0", "2", "1", "-", "0", "9", "9", "9", "9", "9">>,
      <<"E", "M", "P", "-", "1", "2", "3", "4", "-", "1", "0", "2", "1", "-", "1", "0", "0", "0", "0">>,
      <<"E", "M", "P", "-", "1", "2", "3", "4", "-", "1", "0", "2", "1", "-", "1", "0", "0", "0", "0", "1", "\n">> }
PayrollIdInputs ==
    { <<"D", "B", "-", "1", "2", "3", "4", "5", "6">>,
      <<"D", "K", "-", "1", "2", "3", "4", "5", "6">>,
      <<"D", "X", "-", "1", "2", "3", "4", "5", "6">>,
      <<"d", "b", "-", "1", "2", "3", "4", "5", "6">> }
EmpCompanyIdInputs ==
    { <<"C", "N", "Y", "-", "1", "2", "3", "4">>,
      <<"C", "N", "Y", "-", "1", "2", "3", "4", "-", "7">>,
      <<"C", "N", "Y", "1", "2", "3", "4">> }
EmpWorkAreaIdInputs ==
    { <<"W", "A", "I", "-", "1", "2", "3", "4", "-", "1", "0", "2", "1">>,
      <<"W", "A", "I", "-", "1", "2", "3", "4", "-", "1", "0", "2">>,
      <<"1", "0", "2", "1">> }
EmpWorkAreaNameInputs ==
    { S.bar, <<"B", "a", "r">>, <<"K", "i", "t", "c", "h", "e", "n">>,
      S.store_room, <<"p", "o", "o", "l">>, <<"v">> }

EmpInit ==
    /\ Quiet("emp")
    /\ empRec \in [linking_id : LinkingIdInputs, payroll_id : PayrollIdInputs,
                   company_id : EmpCompanyIdInputs, work_area_id : EmpWorkAreaIdInputs,
                   work_area_name : EmpWorkAreaNameInputs]
    /\ empPc = 0
    /\ empValues = <<>>
    /\ empErrors = {}
    /\ waResult = "none"
    /\ linkValid = "none"

\* EmployeeBase(**empRec): the next field is validated
EmployeeBase_validate_field ==
    /\ Frame("emp")
    /\ empPc \in 0..(Len(FieldOrder) - 1)
    /\ LET f == FieldOrder[empPc + 1]
           v == empRec[f]
           ok == /\ FieldConstraint(f, v)
                 /\ f = "payroll_id" => EmployeeBase_validate_payroll_id(v, empValues)
       IN  /\ empValues' = IF ok
                           THEN [g \in DOMAIN empValues \cup {f} |->
                                    IF g = f THEN v ELSE empValues[g]]
                           ELSE empValues
           /\ empErrors' = IF ok THEN empErrors ELSE empErrors \cup {f}
    /\ empPc' = empPc + 1
    /\ UNCHANGED <<empRec, waResult, linkValid>>

\* EmployeeBase(**empRec): the root validator runs, and the model is
\* accepted (empErrors = {}) or rejected with a ValidationError
EmployeeBase_root_validator ==
    /\ Frame("emp")
    /\ empPc = Len(FieldOrder)
    /\ empErrors' = IF validate_linking_id_components(empValues)
                    THEN empErrors ELSE empErrors \cup {"__root__"}
    /\ empPc' = empPc + 1
    /\ UNCHANGED <<empRec, empValues, waResult, linkValid>>

\* WorkArea(work_area_name=..., work_area_id=...)
WorkArea_validate ==
    /\ Frame("emp")
    /\ waResult = "none"
    /\ waResult' = IF /\ FieldConstraint("work_area_name", empRec.work_area_name)
                      /\ validate_work_area_name(empRec.work_area_name)
                      /\ FieldConstraint("work_area_id", empRec.work_area_id)
                   THEN "accepted" ELSE "rejected"
    /\ UNCHANGED <<empRec, empPc, empValues, empErrors, linkValid>>

\* IDService.validate_linking_id(linking_id, company_id, work_area_id)
IDService_validate_linking_id ==
    /\ Frame("emp")
    /\ linkValid = "none"
    /\ linkValid' = IF validate_linking_id(empRec.linking_id, empRec.company_id,
                                           empRec.work_area_id)
                    THEN "true" ELSE "false"
    /\ UNCHANGED <<empRec, empPc, empValues, empErrors, waResult>>

EmpNext ==
    \/ EmployeeBase_validate_field
    \/ EmployeeBase_root_validator
    \/ WorkArea_validate
    \/ IDService_validate_linking_id

SpecEmp == EmpInit /\ [][EmpNext]_vars

EmpDone == empPc = Len(FieldOrder) + 1
EmpAccepted == EmpDone /\ empErrors = {}

-----------------------------------------------------------------------------
(* Claims about the validators *)

\* C2: an EmployeeBase record is accepted only if the letter after 'D' in its
\* payroll_id is the area code of its work_area_name; a record with a
\* recognized work area and another prefix is rejected.
C2_PayrollPrefixMatchesWorkArea ==
    EmpAccepted =>
        LET work_area == lower(empRec.work_area_name) IN
        (\E it \in area_codes : it[1] = work_area) =>
            empRec.payroll_id[2] = (CHOOSE it \in area_codes : it[1] = work_area)[2]

\* The XXXX, YYYY and ZZZZZZ of a linking ID EMP-XXXX-YYYY-ZZZZZZ, and the
\* trailing four digits of an ID
LinkX(linking_id) == SubSeq(linking_id, 5, 8)
LinkY(linking_id) == SubSeq(linking_id, 10, 13)
LinkZ(linking_id) == SubSeq(linking_id, 15, 20)
Last4(id) == SubSeq(id, Len(id) - 3, Len(id))

\* C3: an EmployeeBase record is accepted only if XXXX of its linking_id is the
\* numeric part of company_id and YYYY the last numeric part of work_area_id;
\* IDService.validate_linking_id is True only if the same holds, the ID matches
\* EMP-dddd-dddd-dddddd and ZZZZZZ is at least 100000.
C3_LinkingComponentsMatch ==
    /\ EmpAccepted =>
          /\ LinkX(empRec.linking_id) = SubSeq(empRec.company_id, 5, 8)
          /\ LinkY(empRec.linking_id) = Last4(empRec.work_area_id)
    /\ linkValid = "true" =>
          /\ Len(empRec.linking_id) = 20
          /\ SubSeq(empRec.linking_id, 1, 4) = Prefix.EMP
          /\ isdigit(LinkX(empRec.linking_id))
          /\ isdigit(LinkY(empRec.linking_id))
          /\ isdigit(LinkZ(empRec.linking_id))
          /\ Len(empRec.company_id) >= 8
          /\ LinkX(empRec.linking_id) = SubSeq(empRec.company_id, 5, 8)
          /\ LinkY(empRec.linking_id) = Last4(empRec.work_area_id)
          /\ int(LinkZ(empRec.linking_id)) >= 100000

\* A record whose three IDs agree has been accepted by EmployeeBase and by
\* IDService.validate_linking_id
C3_Witness ==
    /\ EmpAccepted
    /\ linkValid = "true"
    /\ LinkY(empRec.linking_id) = <<"1", "0", "2", "1">>

\* The vocabulary of work-area names
C10_Names ==
    { S.admin, S.bar, S.cleaners, S.functions, S.guest_services,
      S.house_keeping, S.kitchen, S.maintenance, S.operations,
      S.restaurant, S.store_room, S.venue }

\* C10: a WorkArea is accepted only if its lower-cased work_area_name is in the
\* fixed vocabulary, and that vocabulary is exactly the set of names to which
\* IDService.WORK_AREA_CODES and the EmployeeBase validator assign a code.
C10_WorkAreaVocabulary ==
    /\ waResult = "accepted" => lower(empRec.work_area_name) \in C10_Names
    /\ waResult = "rejected" /\ FieldConstraint("work_area_id", empRec.work_area_id)
          /\ Len(empRec.work_area_name) >= 2
          => lower(empRec.work_area_name) \notin C10_Names
    /\ {it[1] : it \in WORK_AREA_CODES} = C10_Names
    /\ {it[1] : it \in area_codes} = C10_Names
    /\ \A n \in C10_Names : HasAreaCode(n) /\ validate_work_area_name(n)

\* A WorkArea named "Bar" (mixed case) has been accepted
C10_Witness ==
    /\ waResult = "accepted"
    /\ empRec.work_area_name = <<"B", "a", "r">>

-----------------------------------------------------------------------------
(* utils/rate_limiter.py: RateLimiter.  Taking the lock, the read and the  *)
(* write of _cleanup, and the rest of each with-block are steps of their    *)
(* own; other threads and the clock may move between any two of them.       *)

\* RateLimiter(max_attempts, window_seconds, block_seconds)
max_attempts == 2
window_seconds == 2
block_seconds == 2

RlThreads == 2       \* threads calling the limiter
MaxRlCalls == 3      \* calls started in one behaviour
MaxTime == 2         \* the clock stops advancing here

Threads == 1..RlThreads
Keys == {"k1", "k2"}
RlOps == {"is_blocked", "record_attempt", "record_success", "clear_attempts"}

NoCall == [op |-> "", key |-> "", tmp |-> <<>>, seen |-> 0, result |-> FALSE]

\* The comprehension with "attempt >= cutoff"
RECURSIVE Newer_Inclusive(_, _)
Newer_Inclusive(list, cutoff) ==
    IF list = <<>> THEN <<>>
    ELSE (IF Head(list) >= cutoff THEN <<Head(list)>> ELSE <<>>)
         \o Newer_Inclusive(Tail(list), cutoff)

\* [x for x in list if x > cutoff]
RECURSIVE Newer(_, _)
Newer(list, cutoff) ==
    IF list = <<>> THEN <<>>
    ELSE (IF Head(list) > cutoff THEN <<Head(list)>> ELSE <<>>) \o Newer(Tail(list), cutoff)

\* A pop that removes nothing
Pop_Nothing(d, key) == d

\* dict.pop(key, None)
Pop(d, key) == [k \in DOMAIN d \ {key} |-> d[k]]

\* d[key] = v
Put(d, key, v) == [k \in DOMAIN d \cup {key} |-> IF k = key THEN v ELSE d[k]]

\* A with-statement that enters without waiting for the lock
LockFree_Ignored(l) == TRUE

\* "with self._lock:" can be entered when no thread holds the lock
LockFree(l) == l = 0

\* The positions at which a thread is inside a "with self._lock:" block
InLock == {"cleanup_read", "cleanup_write", "body"}

RlInit ==
    /\ Quiet("rl")
    /\ attempts = [k \in Keys |-> <<>>]
    /\ blocks = <<>>
    /\ lock = 0
    /\ now = 0
    /\ rlPc = [t \in Threads |-> "idle"]
    /\ rlLocal = [t \in Threads |-> NoCall]
    /\ rlStarted = 0
    /\ recorded = [k \in Keys |-> <<>>]
    /\ recordedSeen = [k \in Keys |-> <<>>]
    /\ triggered = <<>>

RlGoto(t, pos) == rlPc' = [rlPc EXCEPT ![t] = pos]

\* A thread calls is_blocked(key), record_attempt(key, success) or clear_attempts(key)
rl_call(t) ==
    /\ Frame("rl")
    /\ rlPc[t] = "idle"
    /\ rlStarted < MaxRlCalls
    /\ rlStarted' = rlStarted + 1
    /\ \E op \in RlOps, key \in Keys :
         rlLocal' = [rlLocal EXCEPT ![t] = [NoCall EXCEPT !.op = op, !.key = key]]
    /\ RlGoto(t, "acquire")
    /\ UNCHANGED <<attempts, blocks, lock, now, recorded, recordedSeen, triggered>>

\* with self._lock:  (record_attempt(success=True) enters it through clear_attempts)
rl_acquire(t) ==
    /\ Frame("rl")
    /\ rlPc[t] = "acquire"
    /\ LockFree(lock)
    /\ lock' = t
    /\ RlGoto(t, IF rlLocal[t].op \in {"is_blocked", "record_attempt"}
                 THEN "cleanup_read" ELSE "body")
    /\ UNCHANGED <<attempts, blocks, now, rlLocal, rlStarted, recorded, recordedSeen, triggered>>

\* _cleanup: cutoff and the list comprehension over self.attempts.get(key, [])
rl_cleanup_read(t) ==
    /\ Frame("rl")
    /\ rlPc[t] = "cleanup_read"
    /\ rlLocal' = [rlLocal EXCEPT ![t].tmp =
                      Newer(attempts[rlLocal[t].key], now - window_seconds),
                                  ![t].seen = now]
    /\ RlGoto(t, "cleanup_write")
    /\ UNCHANGED <<attempts, blocks, lock, now, rlStarted, recorded, recordedSeen, triggered>>

\* _cleanup: self.attempts[key] = [...], then the block is cleared if expired
rl_cleanup_write(t) ==
    /\ Frame("rl")
    /\ rlPc[t] = "cleanup_write"
    /\ LET key == rlLocal[t].key IN
       /\ attempts' = [attempts EXCEPT ![key] = rlLocal[t].tmp]
       /\ blocks' = IF key \in DOMAIN blocks /\ blocks[key] < now
                    THEN Pop(blocks, key) ELSE blocks
    /\ RlGoto(t, "body")
    /\ UNCHANGED <<lock, now, rlLocal, rlStarted, recorded, recordedSeen, triggered>>

\* is_blocked after _cleanup: the comparison of block_time with utcnow(), the
\* end of the with-block and the return
is_blocked(t) ==
    /\ Frame("rl")
    /\ rlPc[t] = "body" /\ rlLocal[t].op = "is_blocked"
    /\ LET key == rlLocal[t].key IN
       rlLocal' = [rlLocal EXCEPT ![t].result = key \in DOMAIN blocks /\ now < blocks[key],
                                  ![t].tmp = <<>>, ![t].seen = 0]
    /\ lock' = 0
    /\ RlGoto(t, "idle")
    /\ UNCHANGED <<attempts, blocks, now, rlStarted, recorded, recordedSeen, triggered>>

\* record_attempt(key, success=False) after _cleanup: the append, the block
\* when max_attempts is reached, the end of the with-block
record_attempt(t) ==
    /\ Frame("rl")
    /\ rlPc[t] = "body" /\ rlLocal[t].op = "record_attempt"
    /\ LET key == rlLocal[t].key IN
       /\ attempts' = [attempts EXCEPT ![key] = Append(@, now)]
       /\ recorded' = [recorded EXCEPT ![key] = Append(@, now)]
       /\ recordedSeen' = [recordedSeen EXCEPT ![key] = Append(@, rlLocal[t].seen)]
       /\ blocks' = IF Len(attempts'[key]) >= max_attempts
                    THEN Put(blocks, key, now + block_seconds) ELSE blocks
       /\ triggered' = IF /\ Len(attempts'[key]) >= max_attempts
                          /\ ~(key \in DOMAIN blocks /\ now < blocks[key])
                       THEN Put(triggered, key, now) ELSE triggered
    /\ rlLocal' = [rlLocal EXCEPT ![t] = NoCall]
    /\ lock' = 0
    /\ RlGoto(t, "idle")
    /\ UNCHANGED <<now, rlStarted>>

\* clear_attempts(key), also reached from record_attempt(key, success=True):
\* both pops and the end of the with-block
clear_attempts(t) ==
    /\ Frame("rl")
    /\ rlPc[t] = "body" /\ rlLocal[t].op \in {"clear_attempts", "record_success"}
    /\ LET key == rlLocal[t].key IN
       /\ attempts' = [attempts EXCEPT ![key] = <<>>]
       /\ recorded' = [recorded EXCEPT ![key] = <<>>]
       /\ recordedSeen' = [recordedSeen EXCEPT ![key] = <<>>]
       /\ triggered' = Pop(triggered, key)
       /\ blocks' = Pop(blocks, key)
    /\ rlLocal' = [rlLocal EXCEPT ![t].tmp = <<>>, ![t].seen = 0,
                               ![t].result = rlLocal[t].key \in DOMAIN blocks]
    /\ lock' = 0
    /\ RlGoto(t, "idle")
    /\ UNCHANGED <<now, rlStarted>>

\* Time passes
Tick ==
    /\ Frame("rl")
    /\ now < MaxTime
    /\ now' = now + 1
    /\ UNCHANGED <<attempts, blocks, lock, rlPc, rlLocal, rlStarted, recorded, recordedSeen, triggered>>

RlNext ==
    \/ Tick
    \/ \E t \in Threads :
        \/ rl_call(t)
        \/ rl_acquire(t)
        \/ rl_cleanup_read(t)
        \/ rl_cleanup_write(t)
        \/ is_blocked(t)
        \/ record_attempt(t)
        \/ clear_attempts(t)

SpecRL == RlInit /\ [][RlNext]_vars

\* Number of occurrences of x in list
Count(list, x) == Cardinality({i \in DOMAIN list : list[i] = x})

\* C4: every read and write of a key's attempt list and block time happens
\* while the limiter's lock is held, no two threads are inside those sections
\* at once, and no failed attempt is lost: every attempt appended since the
\* key was last cleared, and still inside the window, is in the key's list.
C4_LockedAndNoAttemptLost ==
    /\ \A t \in Threads : rlPc[t] \in InLock => lock = t
    /\ \A t, u \in Threads : rlPc[t] \in InLock /\ rlPc[u] \in InLock => t = u
    /\ \A k \in Keys : \A i \in DOMAIN recorded[k] :
         recorded[k][i] > now - window_seconds =>
             Count(attempts[k], recorded[k][i]) >= Count(recorded[k], recorded[k][i])

\* One thread is inside record_attempt on a key, between the read and the
\* write of _cleanup, while another waits for the lock to record a failed
\* attempt on the same key, whose list already holds an attempt.
C4_Witness ==
    \E t, u \in Threads :
        /\ t # u
        /\ rlPc[t] = "cleanup_write" /\ rlLocal[t].op = "record_attempt"
        /\ rlPc[u] = "acquire" /\ rlLocal[u].op = "record_attempt"
        /\ rlLocal[t].key = rlLocal[u].key
        /\ Len(attempts[rlLocal[t].key]) = 1

\* Thread t returns from is_blocked / from clear_attempts in this step
IsBlockedReturns(t) ==
    rlPc[t] = "body" /\ rlLocal[t].op = "is_blocked" /\ rlPc'[t] = "idle"
ClearReturns(t) ==
    rlPc[t] = "body" /\ rlLocal[t].op \in {"clear_attempts", "record_success"} /\ rlPc'[t] = "idle"

\* The j-th failed attempt on k since the key was last cleared was the
\* max_attempts-th inside the window its call measured: the attempt
\* max_attempts - 1 places before it is newer than the call's cutoff
Reached(k, j) ==
    /\ j >= max_attempts
    /\ recorded[k][j - max_attempts + 1] > recordedSeen[k][j] - window_seconds

\* C13: is_blocked(key) returns True exactly when, since the key was last
\* cleared, some failed attempt was the max_attempts-th within window_seconds
\* and block_seconds have not yet elapsed since it; attempts that a call finds
\* older than the window are not counted.
C13_BlockedAfterMaxAttempts ==
    [][\A t \in Threads : IsBlockedReturns(t) =>
          LET k == rlLocal[t].key IN
          rlLocal'[t].result =
              (\E j \in DOMAIN recorded[k] :
                  Reached(k, j) /\ now < recorded[k][j] + block_seconds)]_vars

\* is_blocked has returned True for a key after time has passed, with one
\* attempt of the key already dropped from its list as too old.
C13_Witness ==
    \E t \in Threads :
        /\ rlPc[t] = "idle" /\ rlLocal[t].op = "is_blocked" /\ rlLocal[t].result
        /\ Len(recorded[rlLocal[t].key]) > Len(attempts[rlLocal[t].key])

\* C14: record_attempt(key, success=True) and clear_attempts(key) leave the
\* key without attempts and without a block and leave every other key as it
\* was; a key has a block, and is_blocked(key) is True, only after
\* max_attempts failed attempts recorded since the key was last cleared.
C14_ClearIsComplete ==
    /\ [][\A t \in Threads : ClearReturns(t) =>
            LET k == rlLocal[t].key IN
            /\ attempts'[k] = <<>>
            /\ k \notin DOMAIN blocks'
            /\ \A o \in Keys \ {k} :
                 /\ attempts'[o] = attempts[o]
                 /\ (o \in DOMAIN blocks') = (o \in DOMAIN blocks)
                 /\ o \in DOMAIN blocks => blocks'[o] = blocks[o]]_vars
    /\ [][\A t \in Threads : IsBlockedReturns(t) /\ rlLocal'[t].result =>
            Len(recorded[rlLocal[t].key]) >= max_attempts]_vars
    /\ [](\A k \in DOMAIN blocks : Len(recorded[k]) >= max_attempts)

\* A clear has just removed the block of a key.
C14_Witness ==
    \E t \in Threads :
        /\ rlPc[t] = "idle" /\ rlLocal[t].op \in {"clear_attempts", "record_success"}
        /\ rlLocal[t].result
        /\ rlLocal[t].key \notin DOMAIN blocks
        /\ attempts[rlLocal[t].key] = <<>>

\* C15: a block ends block_seconds after the failed attempt that triggered
\* it: the end stored for a blocked key is never later than that, whatever
\* failed attempts are recorded for the key while it is blocked.
C15_BlockEndsOnTime ==
    \A k \in DOMAIN blocks :
        /\ k \in DOMAIN triggered
        /\ blocks[k] <= triggered[k] + block_seconds

-----------------------------------------------------------------------------
(* modules/permissionsManager_module.py: PermissionManager.  A call runs to *)
(* completion before the next one starts; the clock advances between calls. *)

\* self.cache_timeout, in seconds
cache_timeout == 300

MaxPermCalls == 3    \* PermissionManager calls in one behaviour
MaxPermTicks == 2    \* advances of the clock in one behaviour
TickSizes == {1, 299}

role_hierarchy ==
    [system |->
        [super_admin |-> <<"admin", "manager", "user">>,
         admin |-> <<"manager", "user">>,
         manager |-> <<"user">>,
         user |-> <<>>],
     business |->
        [owner |-> <<"admin", "manager", "staff", "employee">>,
         admin |-> <<"manager", "staff", "employee">>,
         manager |-> <<"staff", "employee">>,
         staff |-> <<"employee">>,
         employee |-> <<>>],
     venue |->
        [venue_manager |-> <<"supervisor", "staff", "employee">>,
         supervisor |-> <<"staff", "employee">>,
         staff |-> <<"employee">>,
         employee |-> <<>>]]

permission_definitions ==
    [system |->
        [super_admin |-> <<"all">>,
         admin |-> <<"manage_users", "view_logs", "manage_settings",
                     "manage_venues", "manage_permissions">>,
         manager |-> <<"manage_assigned_venues", "view_logs",
                       "view_settings", "manage_staff">>,
         user |-> <<"view_own_profile", "update_own_profile">>],
     business |->
        [owner |-> <<"all">>,
         admin |-> <<"manage_venues", "manage_users", "view_reports",
                     "manage_settings", "manage_inventory", "manage_staff">>,
         manager |-> <<"manage_assigned_venues", "view_reports",
                       "manage_staff", "view_inventory", "create_orders">>,
         staff |-> <<"view_assigned_areas", "manage_assigned_tasks",
                     "view_inventory", "update_orders">>,
         employee |-> <<"view_own_schedule", "view_assigned_tasks">>],
     venue |->
        [venue_manager |-> <<"manage_venue", "manage_staff", "view_reports",
                             "manage_inventory", "manage_schedules">>,
         supervisor |-> <<"manage_assigned_areas", "view_staff",
                          "create_reports", "update_inventory">>,
         staff |-> <<"view_assigned_areas", "update_task_status",
                     "view_inventory">>,
         employee |-> <<"view_own_tasks", "update_own_status">>]]

\* A context argument: None, a dict, or a mapping that can be hashed (a dict
\* subclass defining __hash__, an immutable mapping); "" is an absent key
Context(kind, business_id, venue_id, work_area_id) ==
    [kind |-> kind, business_id |-> business_id, venue_id |-> venue_id,
     work_area_id |-> work_area_id]

\* "if context": None and the empty mapping are false
Truthy(context) ==
    /\ context.kind # "None"
    /\ context.business_id # "" \/ context.venue_id # "" \/ context.work_area_id # ""

\* dict.get(key, default)
GetOr(d, key, default) == IF key \in DOMAIN d THEN d[key] ELSE default

_get_context_type(context) ==
    IF ~Truthy(context) THEN "system"
    ELSE IF context.work_area_id # "" THEN "venue"
    ELSE IF context.venue_id # "" THEN "venue"
    ELSE IF context.business_id # "" THEN "business"
    ELSE "system"

\* functools.lru_cache hashes its arguments: a dict context raises TypeError
InheritedRolesRaises(context) == context.kind = "dict"

_get_inherited_roles(role, context) ==
    GetOr(GetOr(role_hierarchy, _get_context_type(context), <<>>), role, <<>>)

\* _get_all_roles: every base role and the roles it inherits
_get_all_roles(base_roles, context) ==
    Range(base_roles) \cup
    UNION {Range(_get_inherited_roles(base_roles[i], context)) : i \in DOMAIN base_roles}

_get_combined_permissions(roles, context) ==
    UNION {Range(GetOr(permission_definitions[_get_context_type(context)], r, <<>>)) : r \in roles}

\* ':'.join(f"{k}={v}" for k, v in sorted(context.items())) if context else ''
context_str(context) ==
    IF ~Truthy(context) THEN <<>>
    ELSE (IF context.business_id # "" THEN <<<<"business_id", context.business_id>>>> ELSE <<>>)
      \o (IF context.venue_id # "" THEN <<<<"venue_id", context.venue_id>>>> ELSE <<>>)
      \o (IF context.work_area_id # "" THEN <<<<"work_area_id", context.work_area_id>>>> ELSE <<>>)

\* f"perm:{user_id}:{permission}:{context_str}", as its four parts
_generate_cache_key(user_id, permission, context) ==
    <<"perm", user_id, permission, context_str(context)>>

\* f"roles:{user_id}:{context.get('business_id', '')}:{context.get('venue_id', '')}"
RolesCacheKey(user_id, context) ==
    <<"roles", user_id, context.business_id, context.venue_id>>

\* The expiry test with the bound included
Fresh_Inclusive(timestamp, t) == t - timestamp <= cache_timeout

\* datetime.utcnow() - timestamp < timedelta(seconds=self.cache_timeout)
Fresh(timestamp, t) == t - timestamp < cache_timeout

\* _get_cached_permission: the result (None when absent or expired) and the
\* cache it leaves behind
_get_cached_permission(c, cache_key, t) ==
    IF cache_key \in DOMAIN c
    THEN IF Fresh(c[cache_key].timestamp, t)
         THEN [hit |-> TRUE, result |-> c[cache_key].value, cache |-> c]
         ELSE [hit |-> FALSE, result |-> FALSE, cache |-> Pop(c, cache_key)]
    ELSE [hit |-> FALSE, result |-> FALSE, cache |-> c]

\* _cache_permission
_cache_permission(c, cache_key, result, t) ==
    Put(c, cache_key, [value |-> result, timestamp |-> t])

\* _clear_user_cache: drops the keys that start with "perm:{user_id}:"
_clear_user_cache(c, user_id) ==
    [k \in {x \in DOMAIN c : ~(x[1] = "perm" /\ x[2] = user_id)} |-> c[k]]


\* find_one on business_users / businesses: the role of the active document
\* or staff entry, "" when there is none
BusinessRole(user_id, context) ==
    GetOr(business_users, <<user_id, context.business_id>>, "")
VenueRole(user_id, context) ==
    GetOr(businesses, <<user_id, context.business_id, context.venue_id>>, "")
WorkAreaRole(user_id, context) ==
    IF context.business_id = "" \/ context.venue_id = "" THEN ""
    ELSE GetOr(businesses, <<user_id, context.business_id, context.venue_id,
                             context.work_area_id>>, "")

\* roles.append(...) when a role was found
RoleList(role) == IF role = "" THEN <<>> ELSE <<role>>

\* _get_user_roles: raised (context is None: context.get fails before the
\* try), else the roles and the cache it leaves behind.  dbok = FALSE is a
\* PyMongoError from a query; context['business_id'] of _get_venue_role is a
\* KeyError when the key is absent; both end in "return []", nothing cached.
_get_user_roles(c, user_id, context, t, dbok) ==
    LET cache_key == RolesCacheKey(user_id, context)
        queries == Truthy(context)
        roles == (IF context.business_id # "" THEN RoleList(BusinessRole(user_id, context)) ELSE <<>>)
              \o (IF context.venue_id # "" THEN RoleList(VenueRole(user_id, context)) ELSE <<>>)
              \o (IF context.work_area_id # "" THEN RoleList(WorkAreaRole(user_id, context)) ELSE <<>>)
    IN  IF context.kind = "None"
        THEN [raised |-> TRUE, failed |-> FALSE, roles |-> <<>>, cache |-> c]
        ELSE IF cache_key \in DOMAIN c /\ Fresh(c[cache_key].timestamp, t)
        THEN [raised |-> FALSE, failed |-> FALSE, roles |-> c[cache_key].value, cache |-> c]
        ELSE IF (queries /\ ~dbok) \/ (context.venue_id # "" /\ context.business_id = "")
        THEN [raised |-> FALSE, failed |-> TRUE, roles |-> <<>>, cache |-> c]
        ELSE [raised |-> FALSE, failed |-> FALSE, roles |-> roles,
              cache |-> Put(c, cache_key, [value |-> roles, timestamp |-> t])]

\* permission in user_permissions or 'all' in user_permissions
HasPermission(permission, roles, context) ==
    LET user_permissions == _get_combined_permissions(_get_all_roles(roles, context), context)
    IN  permission \in user_permissions \/ "all" \in user_permissions

\* check_permission as a function of the cache, the database and the clock:
\* the value returned, where it came from, the cache entry found at lookup
\* (<<>> when there was none) and the cache left behind
CheckPermission(c, user_id, permission, context, t, dbok) ==
    LET cache_key == _generate_cache_key(user_id, permission, context)
        entry == IF cache_key \in DOMAIN c THEN <<c[cache_key]>> ELSE <<>>
        cached == _get_cached_permission(c, cache_key, t)
        ur == _get_user_roles(cached.cache, user_id, context, t, dbok)
        has_permission == HasPermission(permission, ur.roles, context)
        Out(result, from, cc) ==
            [result |-> result, from |-> from, entry |-> entry, roles |-> ur.roles, cache |-> cc,
             failed |-> from # "cache" /\ ur.failed]
    IN  IF user_id = "" THEN Out(FALSE, "no_user", c)
        ELSE IF cached.hit THEN Out(cached.result, "cache", c)
        ELSE IF ur.raised THEN Out(FALSE, "error", cached.cache)
        ELSE IF ur.roles = <<>> THEN Out(FALSE, "no_roles", ur.cache)
        ELSE IF InheritedRolesRaises(context) THEN Out(FALSE, "error", ur.cache)
        ELSE Out(has_permission, "computed",
                 _cache_permission(ur.cache, cache_key, has_permission, t))

PermUsers == {"", "u1"}
PermNames == {"manage_venues", "view_own_schedule"}
PermContexts ==
    { Context("None", "", "", ""),
      Context("dict", "b1", "", ""),
      Context("hashable", "b1", "", "") }
AssignContexts == { Context("dict", "b1", "", ""), Context("hashable", "b1", "", "") }
AssignRoles == {"admin", "venue_manager"}
DbRoles == {"", "owner"}

NoPermCall ==
    [op |-> "none", user_id |-> "", permission |-> "", context |-> Context("None", "", "", ""),
     result |-> FALSE, from |-> "", entry |-> <<>>, roles |-> <<>>, at |-> 0,
     perms |-> {}, failed |-> FALSE]

PermInit ==
    /\ Quiet("perm")
    /\ cache = <<>>
    /\ business_users \in {<<>>, (<<"u1", "b1">> :> "manager")}
    /\ businesses = <<>>
    /\ utcnow = 0
    /\ permLast = NoPermCall
    /\ permCalls = 0
    /\ permTicks = 0
    /\ permHits = 0
    /\ permAssigned = <<>>

\* PermissionManager.check_permission(user_id, permission, context)
check_permission(user_id, permission, context, dbok) ==
    /\ Frame("perm")
    /\ permCalls < MaxPermCalls
    /\ permCalls' = permCalls + 1
    /\ LET r == CheckPermission(cache, user_id, permission, context, utcnow, dbok) IN
       /\ cache' = r.cache
       /\ permHits' = permHits + (IF r.from = "cache" THEN 1 ELSE 0)
       /\ permLast' = [op |-> "check_permission", user_id |-> user_id,
                       permission |-> permission, context |-> context,
                       result |-> r.result, from |-> r.from, entry |-> r.entry,
                       roles |-> r.roles, at |-> utcnow, perms |-> {}, failed |-> r.failed]
    /\ UNCHANGED <<business_users, businesses, utcnow, permTicks, permAssigned>>

\* get_effective_permissions as a function of the cache, the database and
\* the clock: the permissions returned ([] from the except branch when
\* _get_user_roles or the lru_cache raises) and the cache left behind
GetEffectivePermissions(c, user_id, context, t, dbok) ==
    LET ur == _get_user_roles(c, user_id, context, t, dbok)
        raised == ur.raised \/ (ur.roles # <<>> /\ InheritedRolesRaises(context))
    IN  [perms |-> IF raised THEN {}
                   ELSE _get_combined_permissions(_get_all_roles(ur.roles, context), context),
         roles |-> ur.roles, failed |-> ur.failed, raised |-> raised, cache |-> ur.cache]

\* PermissionManager.get_effective_permissions(user_id, context)
get_effective_permissions(user_id, context, dbok) ==
    /\ Frame("perm")
    /\ permCalls < MaxPermCalls
    /\ permCalls' = permCalls + 1
    /\ LET r == GetEffectivePermissions(cache, user_id, context, utcnow, dbok) IN
       /\ cache' = r.cache
       /\ permLast' = [NoPermCall EXCEPT !.op = "get_effective_permissions",
                          !.user_id = user_id, !.context = context, !.roles = r.roles,
                          !.from = IF r.raised THEN "error" ELSE "computed",
                          !.perms = r.perms, !.failed = r.failed, !.at = utcnow]
    /\ UNCHANGED <<business_users, businesses, utcnow, permTicks, permHits, permAssigned>>

\* PermissionManager.assign_role(user_id, role, context, assigned_by) in a
\* business context: the role must be defined for the context type,
\* _get_inherited_roles must not raise, and the upsert must succeed; then the
\* user's "perm:" entries are dropped
assign_role(user_id, role, context, dbok) ==
    /\ Frame("perm")
    /\ permCalls < MaxPermCalls
    /\ permCalls' = permCalls + 1
    /\ LET ok == /\ role \in DOMAIN permission_definitions[_get_context_type(context)]
                 /\ ~InheritedRolesRaises(context)
                 /\ dbok
       IN
       /\ business_users' = IF ok THEN Put(business_users, <<user_id, context.business_id>>, role)
                            ELSE business_users
       /\ cache' = IF ok THEN _clear_user_cache(cache, user_id) ELSE cache
       /\ permAssigned' = IF ok THEN Put(permAssigned, <<user_id, context.business_id>>, role)
                          ELSE permAssigned
       /\ permLast' = [NoPermCall EXCEPT !.op = "assign_role", !.user_id = user_id,
                          !.context = context, !.result = ok, !.at = utcnow]
    /\ UNCHANGED <<businesses, utcnow, permTicks, permHits>>

\* PermissionManager.remove_role(user_id, context): _get_collection_for_context
\* returns the collection's name, a str, so collection.update_one raises
\* AttributeError and the call returns False
remove_role(user_id, context) ==
    /\ Frame("perm")
    /\ permCalls < MaxPermCalls
    /\ permCalls' = permCalls + 1
    /\ permLast' = [NoPermCall EXCEPT !.op = "remove_role", !.user_id = user_id,
                       !.context = context, !.result = FALSE, !.at = utcnow]
    /\ UNCHANGED <<cache, business_users, businesses, utcnow, permTicks, permHits, permAssigned>>

\* Another writer (a second worker process, the onboarding routes) changes
\* the user's business role in the database; counted with the calls
db_write(user_id, role) ==
    /\ Frame("perm")
    /\ permCalls < MaxPermCalls
    /\ permCalls' = permCalls + 1
    /\ business_users' = IF role = "" THEN Pop(business_users, <<user_id, "b1">>)
                         ELSE Put(business_users, <<user_id, "b1">>, role)
    /\ business_users' # business_users
    /\ permAssigned' = Pop(permAssigned, <<user_id, "b1">>)
    /\ UNCHANGED <<cache, businesses, utcnow, permLast, permTicks, permHits>>

\* Time passes between calls
PermTick ==
    /\ Frame("perm")
    /\ permTicks < MaxPermTicks
    /\ permTicks' = permTicks + 1
    /\ \E d \in TickSizes : utcnow' = utcnow + d
    /\ UNCHANGED <<cache, business_users, businesses, permLast, permCalls, permHits, permAssigned>>

PermNext ==
    \/ PermTick
    \/ \E user_id \in PermUsers, permission \in PermNames, context \in PermContexts, dbok \in BOOLEAN :
          check_permission(user_id, permission, context, dbok)
    \/ \E user_id \in PermUsers \ {""}, context \in PermContexts, dbok \in BOOLEAN :
          get_effective_permissions(user_id, context, dbok)
    \/ \E user_id \in PermUsers \ {""}, role \in AssignRoles, context \in AssignContexts, dbok \in BOOLEAN :
          assign_role(user_id, role, context, dbok)
    \/ \E user_id \in PermUsers \ {""}, context \in AssignContexts :
          remove_role(user_id, context)
    \/ \E user_id \in PermUsers \ {""}, role \in DbRoles :
          db_write(user_id, role)

SpecPerm == PermInit /\ [][PermNext]_vars


\* The cache key of the last check_permission call
LastKey == _generate_cache_key(permLast.user_id, permLast.permission, permLast.context)

\* Age, at the last call, of the cache entry the call found
LastAge == permLast.at - permLast.entry[1].timestamp

\* C5: check_permission returns a cached decision for (user, permission,
\* context) only if it was stored less than cache_timeout seconds earlier,
\* and then returns that decision; an entry that has reached that age is
\* deleted by the lookup and the decision is recomputed: the call goes on to
\* the user's roles, the old entry is gone, and with a hashable context the
\* value returned is the one computed from those roles.
C5_CacheIsTTL ==
    permLast.op = "check_permission" /\ permLast.user_id # "" =>
        /\ permLast.from = "cache" =>
              /\ permLast.entry # <<>>
              /\ LastAge < cache_timeout
              /\ permLast.result = permLast.entry[1].value
        /\ permLast.entry # <<>> /\ LastAge >= cache_timeout =>
              /\ permLast.from \in {"computed", "no_roles", "error"}
              /\ LastKey \in DOMAIN cache => cache[LastKey].timestamp = permLast.at
              /\ permLast.context.kind = "hashable" =>
                    permLast.result = HasPermission(permLast.permission, permLast.roles,
                                                    permLast.context)
        /\ permLast.entry # <<>> /\ LastAge < cache_timeout => permLast.from = "cache"

\* A decision has been answered from the cache, and the last call found an
\* entry of exactly cache_timeout seconds, dropped it and computed True anew.
C5_Witness ==
    /\ permHits >= 1
    /\ permLast.op = "check_permission"
    /\ permLast.entry # <<>>
    /\ LastAge = cache_timeout
    /\ permLast.from = "computed"
    /\ permLast.result
    /\ cache[LastKey].timestamp = permLast.at


-----------------------------------------------------------------------------
(* utils/error_utils.py: the AppError hierarchy, handle_error, log_error.   *)
(* A text (a message, str(error)) is a sequence of words.                   *)

MaxErrCalls == 2     \* handle_error calls in one behaviour

\* The classes derived from AppError, AppError included
AppErrorClasses ==
    {"AppError", "ValidationError", "AuthenticationError", "PermissionError",
     "NotFoundError", "DatabaseError"}

\* AppError.__init__(message, error_code, status_code=500); str(error) is the message
AppError(message, error_code, status_code) ==
    [class |-> "AppError", text |-> message, message |-> message,
     error_code |-> error_code, status_code |-> status_code]

\* The subclasses call super().__init__(message, error_code, status_code=...)
ValidationError(message, error_code) ==
    [AppError(message, error_code, 400) EXCEPT !.class = "ValidationError"]
AuthenticationError(message, error_code) ==
    [AppError(message, error_code, 401) EXCEPT !.class = "AuthenticationError"]
PermissionError(message, error_code) ==
    [AppError(message, error_code, 403) EXCEPT !.class = "PermissionError"]
NotFoundError(message, error_code) ==
    [AppError(message, error_code, 404) EXCEPT !.class = "NotFoundError"]
DatabaseError(message, error_code) ==
    [AppError(message, error_code, 500) EXCEPT !.class = "DatabaseError"]

\* An exception outside the hierarchy; the PermissionError of
\* modules/permissionsManager_module.py is one that carries message, code and
\* status_code attributes of its own
OtherException(class, text) ==
    [class |-> class, text |-> text, message |-> text,
     error_code |-> "PERMISSION_DENIED", status_code |-> 403]

\* isinstance(error, AppError)
IsAppError(error) == error.class \in AppErrorClasses

GenericMessage == <<"An", "unexpected", "error", "occurred">>

\* A response that passes the exception's own text on
HandleError_Leaky(error) ==
    [response |-> [success |-> FALSE,
                   error |-> [code |-> IF IsAppError(error) THEN error.error_code
                                       ELSE "INTERNAL_ERROR",
                              message |-> error.text]],
     status_code |-> IF IsAppError(error) THEN error.status_code ELSE 500]

\* handle_error: the (error_response, status_code) pair it returns
HandleError(error) ==
    LET status_code == IF IsAppError(error) THEN error.status_code ELSE 500
        error_code == IF IsAppError(error) THEN error.error_code ELSE "INTERNAL_ERROR"
        message == IF IsAppError(error) THEN error.message ELSE GenericMessage
    IN  [response |-> [success |-> FALSE,
                       error |-> [code |-> error_code, message |-> message]],
         status_code |-> status_code]

\* log_error: the document inserted into db.error_logs, when there is a
\* request context, ERROR_LOGGING_ENABLED is set and the insert succeeds;
\* every exception inside log_error is swallowed
LogError(logs, error, error_code, status_code, in_request, enabled, dbok) ==
    IF in_request /\ enabled /\ dbok
    THEN Append(logs, [error_code |-> error_code, status_code |-> status_code,
                       error_type |-> error.class, error_message |-> error.text])
    ELSE logs

ErrMessages == { <<"Invalid", "ACN", "format">>, <<"error">>, <<"E11000", "duplicate", "key">> }
ErrCodes == {"default", "CUSTOM_CODE"}
Code(error_code, default) == IF error_code = "default" THEN default ELSE error_code

\* The errors raised: each class with its default and with a custom code, a
\* plain AppError with and without an explicit status, other exceptions
ErrInputs ==
    UNION { { ValidationError(m, Code(c, "VALIDATION_ERROR")),
              AuthenticationError(m, Code(c, "AUTH_ERROR")),
              PermissionError(m, Code(c, "PERMISSION_ERROR")),
              NotFoundError(m, Code(c, "NOT_FOUND")),
              DatabaseError(m, Code(c, "DATABASE_ERROR")),
              AppError(m, Code(c, "APP_ERROR"), 500),
              AppError(m, Code(c, "APP_ERROR"), 409) } : m \in ErrMessages, c \in ErrCodes }
    \cup { OtherException(k, m) :
             k \in {"ValueError", "PyMongoError", "permissionsManager.PermissionError"},
             m \in ErrMessages }

NoErrCall == [op |-> "none"]

ErrInit ==
    /\ Quiet("err")
    /\ error_logs = <<>>
    /\ errLast = NoErrCall
    /\ errCalls = 0

\* handle_error(error), log_error included
handle_error(error, in_request, enabled, dbok) ==
    /\ Frame("err")
    /\ errCalls < MaxErrCalls
    /\ errCalls' = errCalls + 1
    /\ LET r == HandleError(error) IN
       /\ errLast' = [op |-> "handle_error", error |-> error,
                      response |-> r.response, status_code |-> r.status_code]
       /\ error_logs' = LogError(error_logs, error, r.response.error.code, r.status_code,
                                 in_request, enabled, dbok)

ErrNext ==
    \E error \in ErrInputs, in_request \in BOOLEAN, enabled \in BOOLEAN, dbok \in BOOLEAN :
        handle_error(error, in_request, enabled, dbok)

SpecErr == ErrInit /\ [][ErrNext]_vars

\* text occurs in message as a run of consecutive words
Contains(message, text) ==
    \E i \in 0..Len(message) :
        /\ i + Len(text) <= Len(message)
        /\ \A j \in 1..Len(text) : message[i + j] = text[j]

\* The status each class of the hierarchy carries
StatusOf(class) ==
    CASE class = "ValidationError" -> 400
      [] class = "AuthenticationError" -> 401
      [] class = "PermissionError" -> 403
      [] class = "NotFoundError" -> 404
      [] class = "DatabaseError" -> 500
      [] OTHER -> 0

\* C8: handle_error returns the status carried by an AppError (400, 401, 403,
\* 404, 500 for the five subclasses, 500 for a plain AppError unless another
\* status was given) with the error's code and message, and maps every other
\* exception to 500, INTERNAL_ERROR and the fixed generic message, which is
\* the same whatever the exception says and repeats none of its text (unless
\* that text is itself a fragment of the fixed sentence).
C8_StatusMapping ==
    errLast.op = "handle_error" =>
        LET e == errLast.error
            r == errLast.response
        IN  /\ r.success = FALSE
            /\ IsAppError(e) =>
                 /\ errLast.status_code = e.status_code
                 /\ r.error.code = e.error_code
                 /\ r.error.message = e.message
            /\ e.class \in AppErrorClasses \ {"AppError"} =>
                 errLast.status_code = StatusOf(e.class)
            /\ e \in {AppError(m, c, 500) : m \in ErrMessages, c \in {"APP_ERROR", "CUSTOM_CODE"}} =>
                 errLast.status_code = 500
            /\ ~IsAppError(e) =>
                 /\ errLast.status_code = 500
                 /\ r.error.code = "INTERNAL_ERROR"
                 /\ r.error.message = GenericMessage
                 /\ ~Contains(GenericMessage, e.text) => ~Contains(r.error.message, e.text)

\* An exception that is not an AppError but carries status 403 of its own has
\* been answered with 500, after a ValidationError was answered with 400 and logged.
C8_Witness ==
    /\ errLast.op = "handle_error"
    /\ errLast.error.class = "permissionsManager.PermissionError"
    /\ errLast.error.status_code = 403
    /\ errLast.status_code = 500
    /\ Len(error_logs) = 2
    /\ error_logs[1].error_type = "ValidationError" /\ error_logs[1].status_code = 400


-----------------------------------------------------------------------------
(* routes/onboarding/companyOnboarding_routes.py and                        *)
(* routes/companyOnboarding_routes.py: validate_acn and the ACN gate of     *)
(* handle_onboarding; models/business_entities/companies.py: the ACN field. *)

MaxAcnCalls == 2     \* requests and records handled in one behaviour

\* ''.join(filter(str.isdigit, acn))
RECURSIVE FilterDigits(_)
FilterDigits(s) ==
    IF s = <<>> THEN <<>>
    ELSE (IF IsDigitChar(Head(s)) THEN <<Head(s)>> ELSE <<>>) \o FilterDigits(Tail(s))

weights == <<8, 7, 6, 5, 4, 3, 2, 1>>

\* sum(w * d for w, d in zip(weights, digits))
RECURSIVE ZipSum(_, _)
ZipSum(ws, ds) ==
    IF ws = <<>> \/ ds = <<>> THEN 0
    ELSE Head(ws) * Head(ds) + ZipSum(Tail(ws), Tail(ds))

\* validate_acn of routes/onboarding/companyOnboarding_routes.py
validate_acn(acn) ==
    LET acn_digits == FilterDigits(acn) IN
    IF Len(acn_digits) # 9 THEN FALSE
    ELSE LET digits == [i \in 1..8 |-> DigitVal(acn_digits[i])]
             weighted_sum == ZipSum(weights, digits)
             remainder == weighted_sum % 10
             check_digit == IF remainder # 0 THEN 10 - remainder ELSE 0
         IN  check_digit = DigitVal(acn_digits[9])

\* validate_acn of routes/companyOnboarding_routes.py: the digit count only
routes_validate_acn(acn) ==
    LET acn_digits == FilterDigits(acn) IN
    IF Len(acn_digits) # 9 THEN FALSE ELSE TRUE

\* str.replace(" ", "")
RECURSIVE RemoveSpaces(_)
RemoveSpaces(s) ==
    IF s = <<>> THEN <<>>
    ELSE (IF Head(s) = " " THEN <<>> ELSE <<Head(s)>>) \o RemoveSpaces(Tail(s))

\* ACN: str = Field(..., pattern=r'^\d{3} \d{3} \d{3}$')
MatchACN(v) ==
    \E s \in DollarEnds(v) :
        /\ Len(s) = 11
        /\ DigitsAt(s, 1, 3) /\ s[4] = " " /\ DigitsAt(s, 5, 7) /\ s[8] = " " /\ DigitsAt(s, 9, 11)

\* BusinessEntity.format_ACN: ok = FALSE is the ValueError
format_ACN(v) ==
    LET clean_acn == RemoveSpaces(v) IN
    IF Len(clean_acn) # 9 THEN [ok |-> FALSE, value |-> v]
    ELSE [ok |-> TRUE,
          value |-> SubSeq(clean_acn, 1, 3) \o <<" ">> \o SubSeq(clean_acn, 4, 6)
                    \o <<" ">> \o SubSeq(clean_acn, 7, 9)]

\* The first eight digits of the ACNs submitted
AcnPrefixes ==
    { <<"0", "0", "0", "0", "0", "0", "0", "0">>,
      <<"0", "0", "4", "0", "8", "5", "6", "1">>,
      <<"1", "2", "3", "4", "5", "6", "7", "9">> }

\* The ways a number is written: bare, in groups of three with spaces or
\* dashes, a digit short, a digit long
Grouped(d, sep) == SubSeq(d, 1, 3) \o <<sep>> \o SubSeq(d, 4, 6) \o <<sep>> \o SubSeq(d, 7, 9)
AcnInputs ==
    UNION { { d, Grouped(d, " "), Grouped(d, "-"), SubSeq(d, 2, 9), d \o <<"0">> } :
              d \in { p \o <<DigitChars[i]>> : p \in AcnPrefixes, i \in DOMAIN DigitChars } }

NoAcnCall == [op |-> "none", acn |-> <<>>, valid |-> FALSE, outcome |-> "none"]

AcnInit ==
    /\ Quiet("acn")
    /\ acnLast = NoAcnCall
    /\ acnCalls = 0
    /\ acnOnboarded = 0

\* What a request does once its required fields are present: 400 when
\* validate_acn fails; otherwise the remaining validation and the inserts
\* (rest_ok) decide between 200 and an error
Onboard(op, acn, valid, rest_ok) ==
    /\ Frame("acn")
    /\ acnCalls < MaxAcnCalls
    /\ acnCalls' = acnCalls + 1
    /\ LET outcome == IF ~valid THEN "invalid_acn"
                      ELSE IF rest_ok THEN "accepted" ELSE "other_error"
       IN  /\ acnLast' = [op |-> op, acn |-> acn, valid |-> valid, outcome |-> outcome]
           /\ acnOnboarded' = acnOnboarded + (IF outcome = "accepted" THEN 1 ELSE 0)

\* POST /onboarding/api/onboard of routes/onboarding/companyOnboarding_routes.py
handle_onboarding(acn, rest_ok) ==
    Onboard("onboarding.handle_onboarding", acn, validate_acn(acn), rest_ok)

\* POST /onboarding/api/onboard of routes/companyOnboarding_routes.py
routes_handle_onboarding(acn, rest_ok) ==
    Onboard("routes.handle_onboarding", acn, routes_validate_acn(acn), rest_ok)

\* BusinessEntity(ACN=v, ...): the field pattern, then format_ACN
BusinessEntity_ACN(v) ==
    /\ Frame("acn")
    /\ acnCalls < MaxAcnCalls
    /\ acnCalls' = acnCalls + 1
    /\ LET ok == MatchACN(v) /\ format_ACN(v).ok IN
       acnLast' = [op |-> "BusinessEntity", acn |-> v, valid |-> ok,
                   outcome |-> IF ok THEN "accepted" ELSE "invalid_acn"]
    /\ UNCHANGED acnOnboarded

AcnNext ==
    \/ \E acn \in AcnInputs, rest_ok \in BOOLEAN : handle_onboarding(acn, rest_ok)
    \/ \E acn \in AcnInputs, rest_ok \in BOOLEAN : routes_handle_onboarding(acn, rest_ok)
    \/ \E acn \in AcnInputs : BusinessEntity_ACN(acn)

SpecAcn == AcnInit /\ [][AcnNext]_vars

\* The check digit of eight digits: (10 - (weighted sum mod 10)) mod 10 with
\* weights 8, 7, 6, 5, 4, 3, 2, 1
CheckDigit(d) ==
    (10 - ((8 * d[1] + 7 * d[2] + 6 * d[3] + 5 * d[4] + 4 * d[5] + 3 * d[6] + 2 * d[7] + d[8]) % 10)) % 10

\* The input holds 9 digits and the ninth is the check digit of the first eight
AcnOk(acn) ==
    LET ds == FilterDigits(acn) IN
    /\ Len(ds) = 9
    /\ DigitVal(ds[9]) = CheckDigit([i \in 1..8 |-> DigitVal(ds[i])])

\* C9: validate_acn returns True exactly when the input holds 9 digits and
\* the ninth is the check digit of the first eight, and an onboarding request
\* whose ACN fails that check is not accepted.
C9_AcnChecksum ==
    acnLast.op \in {"onboarding.handle_onboarding", "routes.handle_onboarding"} =>
        /\ acnLast.valid = AcnOk(acnLast.acn)
        /\ acnLast.outcome = "accepted" => AcnOk(acnLast.acn)


-----------------------------------------------------------------------------
(* Role changes and inheritance (PermissionManager) *)

\* The role list of a user whose last role change was assign_role(user, role, context)
AssignedRoles ==
    <<permAssigned[<<permLast.user_id, permLast.context.business_id>>]>>

\* C11: after assign_role has returned True for a user in a context, a later
\* check_permission or get_effective_permissions for that user in the same
\* context, whose database queries do not fail, is decided from the role
\* assigned, not from a decision or a role list cached before the change.
C11_RoleChangeNotMasked ==
    /\ permLast.op \in {"check_permission", "get_effective_permissions"}
    /\ permLast.context.kind = "hashable"
    /\ <<permLast.user_id, permLast.context.business_id>> \in DOMAIN permAssigned
    /\ ~permLast.failed
    => /\ permLast.op = "check_permission" =>
            permLast.result = HasPermission(permLast.permission, AssignedRoles, permLast.context)
       /\ permLast.op = "get_effective_permissions" =>
            permLast.perms = _get_combined_permissions(
                                 _get_all_roles(AssignedRoles, permLast.context), permLast.context)


\* C12: check_permission returns True exactly when the permission, or 'all',
\* is defined, for the context's type, for one of the roles the user holds in
\* the context or for a role inherited from one of them, and False otherwise
\* (empty user_id, no role).  Stated for the calls that are not answered from
\* the permission cache, over the role list the call obtained.
C12_InheritedPermissions ==
    permLast.op = "check_permission" /\ permLast.from # "cache" =>
        permLast.result =
            (/\ permLast.user_id # ""
             /\ HasPermission(permLast.permission, permLast.roles, permLast.context))

-----------------------------------------------------------------------------
(* utils/business_utils.py: create_business and add_venue_to_business, as   *)
(* steps of concurrent callers.  Each database operation is one atomic      *)
(* step and may raise a PyMongoError (dbok = FALSE).  The business_data of  *)
(* a creation carries no company_id, so the ID comes from                   *)
(* IDService.generate_company_id.                                           *)

MaxBizCalls == 3     \* business_utils calls started in one behaviour

\* the draws of random.randint(1000, 9999) considered
BizNumbers == { CompanyLo, 1234 }
\* company_id arguments of add_venue_to_business: a stored business, and one stored only once created
BizCompanyInputs == { Prefix.CNY \o str(n) : n \in BizNumbers }
\* venue_data.get('venue_id'): absent, or given by the caller
VenueIdGiven == { <<>>, <<"V", "E", "N", "-", "1", "2", "3", "4", "-", "1", "0">> }

NoBizCall == [op |-> "", company_id |-> <<>>, venue_id |-> <<>>, current |-> 0, modified |-> FALSE]

BizInit ==
    /\ Quiet("biz")
    /\ sequences = <<>>
    /\ business_entities = << [company_id |-> Prefix.CNY \o str(1234), venues |-> <<>>] >>
    /\ business_venues = <<>>
    /\ bizPc = [p \in Procs |-> "idle"]
    /\ bizLocal = [p \in Procs |-> NoBizCall]
    /\ bizStarted = 0
    /\ bizReturned = {}

\* find_one({"company_id": company_id}) finds a document
Stored(company_id) ==
    \E i \in DOMAIN business_entities : business_entities[i].company_id = company_id

\* update_one({'company_id': company_id}, {'$push': {'venues': venue_doc}, ...}):
\* the first matching document gets the venue
PushVenue(docs, company_id, venue_id) ==
    [i \in DOMAIN docs |->
        IF /\ docs[i].company_id = company_id
           /\ \A j \in 1..(i - 1) : docs[j].company_id # company_id
        THEN [docs[i] EXCEPT !.venues = Append(@, venue_id)]
        ELSE docs[i]]

BizStart(p) ==
    /\ bizPc[p] = "idle"
    /\ bizStarted < MaxBizCalls
    /\ bizStarted' = bizStarted + 1

\* A call ends: what it returned ("doc", "None", or "raise" for an exception
\* that leaves the function) and what it had written
BizReturn(p, ret, modified, inserted) ==
    /\ bizReturned' = bizReturned \cup
           {[op |-> bizLocal'[p].op, company_id |-> bizLocal'[p].company_id,
             venue_id |-> bizLocal'[p].venue_id, ret |-> ret,
             modified |-> modified, inserted |-> inserted]}
    /\ bizPc' = [bizPc EXCEPT ![p] = "idle"]

\* create_business up to the find_one of generate_company_id: one iteration
\* of its while-loop
create_business_generate(p) ==
    /\ Frame("biz")
    /\ \/ BizStart(p)
       \/ bizPc[p] = "company_loop" /\ UNCHANGED bizStarted
    /\ \E company_number \in BizNumbers, dbok \in BOOLEAN :
         LET company_id == Prefix.CNY \o str(company_number) IN
         /\ bizLocal' = [bizLocal EXCEPT ![p] =
                [NoBizCall EXCEPT !.op = "create_business",
                                  !.company_id = IF dbok THEN company_id ELSE <<>>]]
         /\ \/ /\ ~dbok
               /\ BizReturn(p, "None", FALSE, FALSE)
            \/ /\ dbok /\ Stored(company_id)
               /\ bizPc' = [bizPc EXCEPT ![p] = "company_loop"]
               /\ UNCHANGED bizReturned
            \/ /\ dbok /\ ~Stored(company_id)
               /\ bizPc' = [bizPc EXCEPT ![p] = "insert_business"]
               /\ UNCHANGED bizReturned
    /\ UNCHANGED <<sequences, business_entities, business_venues>>

\* create_business from business_doc = {...} to the return
create_business_insert(p) ==
    /\ Frame("biz")
    /\ bizPc[p] = "insert_business"
    /\ UNCHANGED bizLocal
    /\ \E dbok \in BOOLEAN :
         IF dbok
         THEN /\ business_entities' = Append(business_entities,
                     [company_id |-> bizLocal[p].company_id, venues |-> <<>>])
              /\ BizReturn(p, "doc", FALSE, TRUE)
         ELSE /\ UNCHANGED business_entities
              /\ BizReturn(p, "None", FALSE, FALSE)
    /\ UNCHANGED <<sequences, business_venues, bizStarted>>

\* add_venue_to_business up to the find_one_and_update of generate_venue_id
add_venue_to_business(p) ==
    /\ Frame("biz")
    /\ BizStart(p)
    /\ \E company_id \in BizCompanyInputs, venue_id \in VenueIdGiven,
          rnd \in RandSeeds, dbok \in BOOLEAN :
         LET call == [NoBizCall EXCEPT !.op = "add_venue_to_business",
                                       !.company_id = company_id, !.venue_id = venue_id]
             name == SeqName.venue \o _extract_id_component(company_id)
         IN  \/ /\ venue_id # <<>> /\ dbok /\ rnd = RandLo
                /\ bizLocal' = [bizLocal EXCEPT ![p] = call]
                /\ bizPc' = [bizPc EXCEPT ![p] = "push_venue"]
                /\ UNCHANGED <<sequences, bizReturned>>
             \/ /\ venue_id = <<>> /\ ~dbok /\ rnd = RandLo
                /\ bizLocal' = [bizLocal EXCEPT ![p] = call]
                /\ BizReturn(p, "raise", FALSE, FALSE)
                /\ UNCHANGED sequences
             \/ /\ venue_id = <<>> /\ dbok
                /\ sequences' = FindOneAndUpdate(sequences, name, rnd, SeqStep)
                /\ bizLocal' = [bizLocal EXCEPT ![p] = [call EXCEPT !.current = sequences'[name]]]
                /\ bizPc' = [bizPc EXCEPT ![p] = "venue_wrap"]
                /\ UNCHANGED bizReturned
    /\ UNCHANGED <<business_entities, business_venues>>

\* generate_venue_id inside add_venue_to_business, from "current =
\* result['value']" to its return
add_venue_to_business_wrap(p) ==
    /\ Frame("biz")
    /\ bizPc[p] = "venue_wrap"
    /\ LET l == bizLocal[p]
           wrapped == Wrap(l.current)
           name == SeqName.venue \o _extract_id_component(l.company_id)
           venue_id == Prefix.VEN \o _extract_id_component(l.company_id) \o Dash \o fmt_d(wrapped, 2)
       IN  \E dbok \in BOOLEAN :
           \/ /\ dbok
              /\ sequences' = IF wrapped # l.current
                              THEN UpdateOneSet(sequences, name, wrapped) ELSE sequences
              /\ bizLocal' = [bizLocal EXCEPT ![p].venue_id = venue_id, ![p].current = 0]
              /\ bizPc' = [bizPc EXCEPT ![p] = "push_venue"]
              /\ UNCHANGED bizReturned
           \/ /\ ~dbok /\ wrapped # l.current
              /\ UNCHANGED <<sequences, bizLocal>>
              /\ BizReturn(p, "raise", FALSE, FALSE)
    /\ UNCHANGED <<business_entities, business_venues, bizStarted>>

\* add_venue_to_business: the update_one on the business document
add_venue_to_business_push(p) ==
    /\ Frame("biz")
    /\ bizPc[p] = "push_venue"
    /\ \E dbok \in BOOLEAN :
         IF dbok
         THEN /\ business_entities' =
                    PushVenue(business_entities, bizLocal[p].company_id, bizLocal[p].venue_id)
              /\ bizLocal' = [bizLocal EXCEPT ![p].modified = Stored(bizLocal[p].company_id)]
              /\ bizPc' = [bizPc EXCEPT ![p] = "insert_venue"]
              /\ UNCHANGED bizReturned
         ELSE /\ UNCHANGED <<business_entities, bizLocal>>
              /\ BizReturn(p, "None", FALSE, FALSE)
    /\ UNCHANGED <<sequences, business_venues, bizStarted>>

\* add_venue_to_business: the insert_one into business_venues and the return
add_venue_to_business_insert(p) ==
    /\ Frame("biz")
    /\ bizPc[p] = "insert_venue"
    /\ UNCHANGED bizLocal
    /\ \E dbok \in BOOLEAN :
         IF dbok
         THEN /\ business_venues' = Append(business_venues,
                     [venue_id |-> bizLocal[p].venue_id, company_id |-> bizLocal[p].company_id])
              /\ BizReturn(p, IF bizLocal[p].modified THEN "doc" ELSE "None",
                           bizLocal[p].modified, TRUE)
         ELSE /\ UNCHANGED business_venues
              /\ BizReturn(p, "None", bizLocal[p].modified, FALSE)
    /\ UNCHANGED <<sequences, business_entities, bizStarted>>

BizNext ==
    \E p \in Procs :
        \/ create_business_generate(p)
        \/ create_business_insert(p)
        \/ add_venue_to_business(p)
        \/ add_venue_to_business_wrap(p)
        \/ add_venue_to_business_push(p)
        \/ add_venue_to_business_insert(p)

SpecBiz == BizInit /\ [][BizNext]_vars

\* C16: for any interleaving of concurrent business creations, each calling
\* generate_company_id and then inserting its document, no two stored
\* businesses have the same company_id.
C16_CompanyIdsUnique ==
    \A i, j \in DOMAIN business_entities :
        i # j => business_entities[i].company_id # business_entities[j].company_id

\* C18: a finished add_venue_to_business either returned the venue document
\* and had added the venue to the business document and to the venues
\* collection, or did not return it and had added the venue to neither.
C18_VenueAdditionAtomic ==
    \A r \in bizReturned :
        r.op = "add_venue_to_business" =>
            \/ r.ret = "doc" /\ r.modified /\ r.inserted
            \/ r.ret \in {"None", "raise"} /\ ~r.modified /\ ~r.inserted

-----------------------------------------------------------------------------
(* models/businessUsers_models.py: record_payment with update_ytd_earnings  *)
(* and update_ytd_tax, as steps of concurrent callers on one user document. *)
(* Each update_one is one atomic step and may raise (dbok = FALSE).         *)
(* Amounts are whole cents.                                                 *)

MaxPayCalls == 3     \* record_payment calls started in one behaviour

\* payment_data: gross and tax in cents, and whether a required field is missing
PayInputs == [gross : {100000, 250050}, tax : {0, 15025}, missing : BOOLEAN]
\* payroll_id arguments: the stored user, and one no document has
PayrollIds == { "DB-000001", "DB-999999" }

NoPayCall == [payroll_id |-> "", gross |-> 0, tax |-> 0]

PayInit ==
    /\ Quiet("pay")
    /\ payDoc = [payroll_id |-> "DB-000001", payments |-> <<>>,
                 salary_ytd |-> 0, tax_withheld_ytd |-> 0]
    /\ payPc = [p \in Procs |-> "idle"]
    /\ payLocal = [p \in Procs |-> NoPayCall]
    /\ payStarted = 0
    /\ payTrue = 0

\* record_payment up to "if result.modified_count > 0"
record_payment(p) ==
    /\ Frame("pay")
    /\ payPc[p] = "idle"
    /\ payStarted < MaxPayCalls
    /\ payStarted' = payStarted + 1
    /\ \E payroll_id \in PayrollIds, payment_data \in PayInputs, dbok \in BOOLEAN :
         IF ~payment_data.missing /\ dbok /\ payroll_id = payDoc.payroll_id
         THEN /\ payDoc' = [payDoc EXCEPT !.payments =
                               Append(@, [gross |-> payment_data.gross, tax |-> payment_data.tax])]
              /\ payLocal' = [payLocal EXCEPT ![p] =
                    [payroll_id |-> payroll_id, gross |-> payment_data.gross,
                     tax |-> payment_data.tax]]
              /\ payPc' = [payPc EXCEPT ![p] = "update_ytd_earnings"]
         ELSE UNCHANGED <<payDoc, payLocal, payPc>>
    /\ UNCHANGED payTrue

\* self.update_ytd_earnings(payroll_id, payment_data['gross']), its result unused
update_ytd_earnings(p) ==
    /\ Frame("pay")
    /\ payPc[p] = "update_ytd_earnings"
    /\ \E dbok \in BOOLEAN :
         payDoc' = IF dbok /\ payLocal[p].payroll_id = payDoc.payroll_id
                   THEN [payDoc EXCEPT !.salary_ytd = @ + payLocal[p].gross]
                   ELSE payDoc
    /\ payPc' = [payPc EXCEPT ![p] = "update_ytd_tax"]
    /\ UNCHANGED <<payLocal, payStarted, payTrue>>

\* self.update_ytd_tax(payroll_id, payment_data['tax']), its result unused, and "return True"
update_ytd_tax(p) ==
    /\ Frame("pay")
    /\ payPc[p] = "update_ytd_tax"
    /\ \E dbok \in BOOLEAN :
         payDoc' = IF dbok /\ payLocal[p].payroll_id = payDoc.payroll_id
                   THEN [payDoc EXCEPT !.tax_withheld_ytd = @ + payLocal[p].tax]
                   ELSE payDoc
    /\ payPc' = [payPc EXCEPT ![p] = "idle"]
    /\ payLocal' = [payLocal EXCEPT ![p] = NoPayCall]
    /\ payTrue' = payTrue + 1
    /\ UNCHANGED payStarted

PayNext ==
    \E p \in Procs :
        \/ record_payment(p)
        \/ update_ytd_earnings(p)
        \/ update_ytd_tax(p)

SpecPay == PayInit /\ [][PayNext]_vars

\* The sum of a field over the payments list
RECURSIVE SumOf(_, _)
SumOf(payments, field) ==
    IF payments = <<>> THEN 0
    ELSE payments[1][field] + SumOf(Tail(payments), field)

\* C19: once the record_payment calls have returned, the payments list holds
\* one payment for each call that returned True and no other, salary_ytd is
\* the sum of their gross amounts and tax_withheld_ytd the sum of their tax
\* amounts, whatever the interleaving and wherever a database step failed.
C19_YtdMatchesPayments ==
    (\A p \in Procs : payPc[p] = "idle") =>
        /\ Len(payDoc.payments) = payTrue
        /\ payDoc.salary_ytd = SumOf(payDoc.payments, "gross")
        /\ payDoc.tax_withheld_ytd = SumOf(payDoc.payments, "tax")

-----------------------------------------------------------------------------
(* utils/payroll/taxRates_utils.py: calculate_annual_tax and calculate_lito. *)
(* A salary is a whole number of half dollars (so 90001 is $45,000.50), a    *)
(* rate is in thousandths, and a Decimal amount is a whole number of         *)
(* 1/2000 dollar, the product of the two; a cent is 20 of these.             *)

MaxTaxCalls == 2     \* calculate_annual_tax calls in one behaviour

\* (min_income, max_income, rate, base_tax); max_income = float('inf') is bounded = FALSE
TAX_BRACKETS_2024_25 ==
    << [min_income |-> 0,      max_income |-> 18200,  bounded |-> TRUE,  rate |-> 0,   base_tax |-> 0],
       [min_income |-> 18201,  max_income |-> 45000,  bounded |-> TRUE,  rate |-> 190, base_tax |-> 0],
       [min_income |-> 45001,  max_income |-> 120000, bounded |-> TRUE,  rate |-> 325, base_tax |-> 5092],
       [min_income |-> 120001, max_income |-> 180000, bounded |-> TRUE,  rate |-> 370, base_tax |-> 29467],
       [min_income |-> 180001, max_income |-> 0,      bounded |-> FALSE, rate |-> 450, base_tax |-> 51667] >>

LITO_2024_25 ==
    [max_offset |-> 700, base_threshold |-> 37500, taper_rate_1 |-> 50,
     threshold_2 |-> 45000, taper_rate_2 |-> 15]

\* get_tax_brackets / get_lito_params: every financial year gets the 2024-25 table
get_tax_brackets(financial_year) == TAX_BRACKETS_2024_25
get_lito_params(financial_year) == LITO_2024_25

\* max(Decimal('0'), x)
Max0(x) == IF x > 0 THEN x ELSE 0

\* x.quantize(Decimal('0.01')), rounding half to even: the result in cents
Quantize(x) ==
    LET q == x \div 20
        r == x % 20
    IN  IF r > 10 \/ (r = 10 /\ q % 2 = 1) THEN q + 1 ELSE q

calculate_lito(annual, financial_year) ==
    LET lito_params == get_lito_params(financial_year) IN
    IF annual <= 2 * lito_params.base_threshold
    THEN 2000 * lito_params.max_offset
    ELSE IF annual <= 2 * lito_params.threshold_2
    THEN LET reduction == (annual - 2 * lito_params.base_threshold) * lito_params.taper_rate_1
         IN  Max0(2000 * lito_params.max_offset - reduction)
    ELSE LET reduction_1 == (2 * lito_params.threshold_2 - 2 * lito_params.base_threshold)
                                * lito_params.taper_rate_1
             reduction_2 == (annual - 2 * lito_params.threshold_2) * lito_params.taper_rate_2
         IN  Max0(2000 * lito_params.max_offset - reduction_1 - reduction_2)

\* The tax of a salary in one bracket, in cents:
\* base_tax + (annual - min_income) * rate, less LITO, floored at 0, quantized
BracketTax(b, annual, financial_year) ==
    LET tax == 2000 * b.base_tax + (annual - 2 * b.min_income) * b.rate
    IN  Quantize(Max0(tax - calculate_lito(annual, financial_year)))

\* calculate_annual_tax: the for-loop from bracket i on, and the fall-through
RECURSIVE CalculateAnnualTax(_, _, _)
CalculateAnnualTax(annual, financial_year, i) ==
    LET tax_brackets == get_tax_brackets(financial_year) IN
    IF i > Len(tax_brackets)
    THEN [found |-> FALSE, tax |-> 0]
    ELSE LET b == tax_brackets[i] IN
         IF annual >= 2 * b.min_income /\ (~b.bounded \/ annual <= 2 * b.max_income)
         THEN [found |-> TRUE, tax |-> BracketTax(b, annual, financial_year)]
         ELSE CalculateAnnualTax(annual, financial_year, i + 1)

\* The calls considered: salaries at, just below and just above every
\* threshold, in half dollars, and three financial years
TaxInputs ==
    [annual_salary : {0, 1, 500000} \cup
                     { 2 * b + d : b \in {18200, 37500, 45000, 66667, 120000, 180000},
                                     d \in -1..3 },
     financial_year : {"None", "2024-25", "2025-26"}]

TaxInit ==
    /\ Quiet("tax")
    /\ taxLast = [annual_salary |-> 0, financial_year |-> "", found |-> FALSE, tax |-> 0]
    /\ taxCalls = 0

calculate_annual_tax ==
    /\ Frame("tax")
    /\ taxCalls < MaxTaxCalls
    /\ taxCalls' = taxCalls + 1
    /\ \E in \in TaxInputs :
         LET r == CalculateAnnualTax(in.annual_salary, in.financial_year, 1) IN
         taxLast' = [annual_salary |-> in.annual_salary, financial_year |-> in.financial_year,
                     found |-> r.found, tax |-> r.tax]

TaxNext == calculate_annual_tax

SpecTax == TaxInit /\ [][TaxNext]_vars

\* The bracket a salary belongs to when the table is read without gaps: the
\* last one whose minimum the salary has passed
Containing(annual) ==
    LET tb == TAX_BRACKETS_2024_25 IN
    CHOOSE i \in DOMAIN tb :
        /\ i = 1 \/ annual > 2 * tb[i - 1].max_income
        /\ ~tb[i].bounded \/ annual <= 2 * tb[i].max_income

\* C20: calculate_annual_tax finds a bracket for every non-negative salary,
\* cents included, and returns base_tax + (salary - minimum) * rate of the
\* bracket containing the salary, less LITO and floored at 0.
C20_BracketForEverySalary ==
    taxCalls > 0 =>
        /\ taxLast.found
        /\ taxLast.tax = BracketTax(TAX_BRACKETS_2024_25[Containing(taxLast.annual_salary)],
                                    taxLast.annual_salary, taxLast.financial_year)

=============================================================================
